---------------------------- MODULE Spec2Model ----------------------------
(***************************************************************************)
(* Keno game: ticket purchase, cancellation and draw settlement            *)
(* (services/ticketService.js, services/drawService.js, models/paytable.js)*)
(*                                                                         *)
(* Every `await database.query(...)` of the services is one step: Node     *)
(* runs the code between two awaits without interruption and PostgreSQL    *)
(* executes one autocommit statement atomically, so the interleavings of   *)
(* concurrent requests are exactly the interleavings of their statements.  *)
(* A `database.transaction(cb)` block commits all its writes at once or,   *)
(* when a statement throws, none of them; the rows it writes are locked    *)
(* until the commit, so its writes are one step taken at the commit.       *)
(* Money is counted in cents.                                              *)
(***************************************************************************)
EXTENDS Integers, Sequences, FiniteSets, Bags, TLC

\* ------------------------------------------------------------------ bounds

\* Store statements that may throw in one behaviour.
MaxFailures == 1

\* Balance of the seeded wallet, in cents.
OpeningBalance == 100

\* ------------------------------------------------------------- the callers

\* Concurrent callers of completeDraw (cron tick, admin route), of
\* purchaseTicket, of cancelTicket and of the GET draw routes; each makes one
\* call.
Completers == {"c1", "c2"}
Buyers == {"b1", "b2"}
Cancellers == {"x1"}
Readers == {"r1"}
\* Concurrent callers of createDraw (the scheduler's tick, the admin route)
\* and callers of DrawService.verifyDraw.
Creators == {"k1", "k2"}
Verifiers == {"v1"}
\* Callers of purchaseTicket for a user who has no wallet row yet.
NewBuyers == {"n1", "n2", "n3"}
Procs ==
  Completers \cup Buyers \cup Cancellers \cup Readers \cup NewBuyers
    \cup Creators \cup Verifiers

\* The one user whose wallet the calls work on, and the draw they work on.
User == "u1"
DrawId == "d1"
\* A user who owns no ticket (req.user.id of another session).
OtherUser == "u2"
\* A draw id no row has (completeDraw's 'Draw not found').
MissingDrawId == "d0"

\* numbers column of the draw row (sorted ascending by the sampler).
DrawNumbers == <<1, 2, 3>>

\* ---------------------------------------------------------------- paytable

\* PaytableService.paytables: spot size -> match count -> base payout, in
\* cents; a match count with no entry is absent from the domain.
Paytables ==
  [s \in 1..10 |->
     CASE s = 1 -> (1 :> 300)
       [] s = 2 -> (0 :> 0) @@ (1 :> 0) @@ (2 :> 1200)
       [] s = 3 -> (0 :> 0) @@ (1 :> 0) @@ (2 :> 100) @@ (3 :> 4200)
       [] s = 4 -> (0 :> 0) @@ (1 :> 0) @@ (2 :> 100) @@ (3 :> 300) @@ (4 :> 10000)
       [] s = 5 -> (0 :> 0) @@ (1 :> 0) @@ (2 :> 100) @@ (3 :> 200) @@ (4 :> 1000)
                   @@ (5 :> 50000)
       [] s = 6 -> (0 :> 0) @@ (1 :> 0) @@ (2 :> 0) @@ (3 :> 100) @@ (4 :> 500)
                   @@ (5 :> 5000) @@ (6 :> 100000)
       [] s = 7 -> (0 :> 0) @@ (1 :> 0) @@ (2 :> 0) @@ (3 :> 0) @@ (4 :> 100)
                   @@ (5 :> 1000) @@ (6 :> 10000) @@ (7 :> 200000)
       [] s = 8 -> (0 :> 0) @@ (1 :> 0) @@ (2 :> 0) @@ (3 :> 0) @@ (4 :> 0)
                   @@ (5 :> 500) @@ (6 :> 5000) @@ (7 :> 50000) @@ (8 :> 500000)
       [] s = 9 -> (0 :> 0) @@ (1 :> 0) @@ (2 :> 0) @@ (3 :> 0) @@ (4 :> 0)
                   @@ (5 :> 200) @@ (6 :> 2000) @@ (7 :> 20000) @@ (8 :> 200000)
                   @@ (9 :> 1000000)
       [] OTHER -> (0 :> 0) @@ (1 :> 0) @@ (2 :> 0) @@ (3 :> 0) @@ (4 :> 0)
                   @@ (5 :> 100) @@ (6 :> 1000) @@ (7 :> 10000) @@ (8 :> 100000)
                   @@ (9 :> 500000) @@ (10 :> 10000000)]

\* paytable.wager: the base wager of every built-in paytable, $1.00.
PaytableWager == 100

\* Math.round(x * 100) / 100 for x = num / den dollars given in cents:
\* Math.round rounds halves up.
RoundCents(num, den) == (2 * num + den) \div (2 * den)

\* PaytableService.calculatePayout(spotSize, matches, wager).payout
calculatePayout(spotSize, matches, wager) ==
  LET payouts == Paytables[spotSize]
      basePayout == IF matches \in DOMAIN payouts THEN payouts[matches] ELSE 0
  IN RoundCents(basePayout * wager, PaytableWager)

\* ------------------------------------------------------------ pure helpers

\* The set of the elements of a sequence (new Set(array)).
SeqToSet(s) == {s[i] : i \in DOMAIN s}

\* calculateMatches looping over the array of spots instead of their Set.
calculateMatchesNoSet(ticketSpots, drawNumbers) ==
  Cardinality({i \in DOMAIN ticketSpots : ticketSpots[i] \in SeqToSet(drawNumbers)})

\* DrawService.calculateMatches(ticketSpots, drawNumbers)
calculateMatches(ticketSpots, drawNumbers) ==
  Cardinality({spot \in SeqToSet(ticketSpots) : spot \in SeqToSet(drawNumbers)})


\* ------------------------------------------------------- ticket validation

\* TicketService constructor defaults (cents / counts).
minWager == 25
maxWager == 2000
minSpots == 1
maxSpots == 10
\* Largest spot number validateTicketData accepts.
MaxSpotNumber == 80

\* validateTicketData without the check of the spot numbers and of the wager.
validateTicketDataLengthOnly(spots, wager, spotSize) ==
  /\ Len(spots) # 0
  /\ Len(spots) >= minSpots /\ Len(spots) <= maxSpots
  /\ spotSize = Len(spots)
  /\ Cardinality(SeqToSet(spots)) = Len(spots)

\* validateTicketData without the check of the wager.
validateTicketDataNoWager(spots, wager, spotSize) ==
  /\ Len(spots) # 0
  /\ Len(spots) >= minSpots /\ Len(spots) <= maxSpots
  /\ spotSize = Len(spots)
  /\ \A i \in DOMAIN spots : spots[i] \in 1..MaxSpotNumber
  /\ Cardinality(SeqToSet(spots)) = Len(spots)

\* TicketService.validateTicketData(spots, wager, spotSize): TRUE iff it
\* returns without throwing.
validateTicketData(spots, wager, spotSize) ==
  /\ Len(spots) # 0
  /\ Len(spots) >= minSpots /\ Len(spots) <= maxSpots
  /\ spotSize = Len(spots)
  /\ \A i \in DOMAIN spots : spots[i] \in 1..MaxSpotNumber
  /\ Cardinality(SeqToSet(spots)) = Len(spots)
  /\ ~(wager < minWager \/ wager > maxWager)

\* Request bodies the purchase calls are made with: a 1-spot ticket that
\* matches the draw, one that does not, and one with a duplicate spot.
TicketChoices ==
  { [spots |-> <<1>>, spotSize |-> 1, wager |-> 100],
    [spots |-> <<4>>, spotSize |-> 1, wager |-> 100],
    [spots |-> <<1, 1>>, spotSize |-> 2, wager |-> 100] }

\* ------------------------------------------------------------------- state

VARIABLES
  drawStatus,   \* draws.status of the draw row
  tickets,      \* tickets table: sequence of rows, the id is the index
  wallet,       \* user_wallets.balance of the user's wallet row
  walletTx,     \* wallet_transactions: bag of [type, amount, ref]
  settlements,  \* ticket_settlements: bag of [ticket, matches, payout]
  failures,     \* store statements that have thrown so far
  pc,           \* pc[p]: the statement caller p awaits next
  loc           \* loc[p]: the local variables of p's call

\* State of the RNGService singleton and of its one synchronous call.
VARIABLES
  serverSeed,   \* this.serverSeed
  rpc,          \* "idle", or "loop": inside the do-while of getRandomIndex
  run,          \* locals of the running call (hash, numbers, i, max, offset)
  ret,          \* what the last call returned
  drawResult,   \* the last object generateDraw returned, as its caller holds it
  seen,         \* history: the first sampleWithoutReplacement call that returned
  windowsRead   \* history: offsets the running call has read the hash at

\* State the other services keep: the draws createDraw inserts, the wallet
\* rows getUserWallet creates, the RNG's pool and draw size, and the OTP
\* routes of server.js.
VARIABLES
  draws,        \* draws table: the rows createDraw inserted, in order
  walletRows,   \* user_wallets rows of the user who starts without a wallet
  config,       \* this.poolSize and this.drawSize of the RNGService
  otpStorage,   \* otpStorage Map: mobile -> [otp, expiry, attempts]
  dateNow,      \* Date.now() as the OTP routes read it
  wrong         \* history: wrong codes tried on the OTP stored for a mobile

svcVars == <<draws, walletRows, config, otpStorage, dateNow, wrong>>

rngState == <<serverSeed, rpc, run, ret, drawResult, seen, windowsRead>>

dbState == <<drawStatus, tickets, wallet, walletTx, settlements, failures, pc, loc>>

\* What the calls of the RNG service, and what the calls on the store of
\* tickets and wallets, leave unchanged when they change their own state.
rngVars == <<rngState, svcVars>>

dbVars == <<dbState, svcVars>>

vars == <<dbVars, rngVars>>

\* process.env.RNG_SERVER_SEED, a hex string (a sequence of hex digits).
EnvServerSeed == <<1, 10>>

\* No call is running; nothing was returned, generated or sampled yet.
NoRun == [op |-> "none"]
NoRet == [op |-> "none", args |-> <<>>, value |-> <<>>]
NoDraw == [numbers |-> <<>>]
NoCall == [args |-> <<>>]

NoData == [spots |-> <<>>, spotSize |-> 0, wager |-> 0]
\* No response sent yet.
NoBody == [status |-> "none", numbers |-> <<>>]

\* Locals of a call before it starts.
InitLoc ==
  [result |-> "none", drawId |-> "none", data |-> NoData, tid |-> 0, list |-> <<>>,
   idx |-> 0, wbal |-> 0, outcome |-> <<>>, body |-> NoBody, user |-> "none",
   walletId |-> "none", drawNumber |-> 0]

\* RNGService constructor: the defaults of this.poolSize and this.drawSize.
poolSize == 80
drawSize == 20

\* KENO_POOL_SIZE and KENO_DRAW_SIZE unset; no draw created, no wallet of
\* the new user, no OTP sent.
DefaultConfig == [poolSize |-> poolSize, drawSize |-> drawSize]

InitServices ==
  /\ draws = <<>>
  /\ walletRows = <<>>
  /\ config = DefaultConfig
  /\ otpStorage = <<>>
  /\ dateNow = 0
  /\ wrong = <<>>

Init ==
  /\ drawStatus = "pending"
  /\ tickets = <<>>
  /\ wallet = OpeningBalance
  /\ walletTx = EmptyBag
  /\ settlements = EmptyBag
  /\ failures = 0
  /\ pc = [p \in Procs |-> "idle"]
  /\ loc = [p \in Procs |-> InitLoc]
  /\ serverSeed = EnvServerSeed
  /\ rpc = "idle"
  /\ run = NoRun
  /\ ret = NoRet
  /\ drawResult = NoDraw
  /\ seen = NoCall
  /\ windowsRead = {}
  /\ InitServices

\* One more row in a table.
Insert(table, row) == table (+) SetToBag({row})

\* The call of p ends: it returns or throws `result`.
Finish(p, result, l) ==
  /\ pc' = [pc EXCEPT ![p] = "done"]
  /\ loc' = [loc EXCEPT ![p] = [l EXCEPT !.result = result, !.idx = 0, !.wbal = 0]]

\* ------------------------------------------------ DrawService.completeDraw

\* The ticket the settlement loop of p is at, and its row as selected.
CurTicket(p) == loc[p].list[loc[p].idx]
Matches(t) == calculateMatches(tickets[t].spots, DrawNumbers)
Payout(t) == calculatePayout(tickets[t].spot_size, Matches(t), tickets[t].wager)

\* NextTicket with the catch of the loop missing: a throw of settleTicket
\* ends completeDraw.
NextTicketAbort(p, how) ==
  LET l == [loc[p] EXCEPT !.outcome = Append(@, how), !.wbal = 0]
  IN IF how = "failed"
       THEN Finish(p, "Store error", l)
     ELSE IF loc[p].idx < Len(loc[p].list)
       THEN /\ pc' = [pc EXCEPT ![p] = "insSettlement"]
            /\ loc' = [loc EXCEPT ![p] = [l EXCEPT !.idx = @ + 1]]
     ELSE Finish(p, "ok", l)

\* for (const ticket of tickets): the loop goes on to the next ticket, or
\* completeDraw returns { drawId, ticketsSettled: tickets.length }.
NextTicket(p, how) ==
  LET l == [loc[p] EXCEPT !.outcome = Append(@, how), !.wbal = 0]
  IN IF loc[p].idx < Len(loc[p].list)
       THEN /\ pc' = [pc EXCEPT ![p] = "insSettlement"]
            /\ loc' = [loc EXCEPT ![p] = [l EXCEPT !.idx = @ + 1]]
       ELSE Finish(p, "ok", l)

\* SelectDraw with the check of draw.status missing.
SelectDrawNoStatusCheck(p) ==
  /\ pc[p] = "idle" /\ p \in Completers
  /\ \E d \in {DrawId, MissingDrawId} :
       IF d # DrawId
         THEN Finish(p, "Draw not found", [loc[p] EXCEPT !.drawId = d])
         ELSE /\ pc' = [pc EXCEPT ![p] = "updDraw"]
              /\ loc' = [loc EXCEPT ![p].drawId = d]
  /\ UNCHANGED <<drawStatus, tickets, wallet, walletTx, settlements, failures>>
  /\ UNCHANGED rngVars

\* SELECT * FROM draws WHERE id = $1, and the two checks on its result.
SelectDraw(p) ==
  /\ pc[p] = "idle" /\ p \in Completers
  /\ \E d \in {DrawId, MissingDrawId} :
       IF d # DrawId
         THEN Finish(p, "Draw not found", [loc[p] EXCEPT !.drawId = d])
       ELSE IF drawStatus # "pending"
         THEN Finish(p, "Draw is not in pending status", [loc[p] EXCEPT !.drawId = d])
       ELSE /\ pc' = [pc EXCEPT ![p] = "updDraw"]
            /\ loc' = [loc EXCEPT ![p].drawId = d]
  /\ UNCHANGED <<drawStatus, tickets, wallet, walletTx, settlements, failures>>
  /\ UNCHANGED rngVars

\* UPDATE draws SET status = 'completed' WHERE id = $1
UpdateDraw(p) ==
  /\ pc[p] = "updDraw"
  /\ drawStatus' = "completed"
  /\ pc' = [pc EXCEPT ![p] = "selTickets"]
  /\ UNCHANGED <<tickets, wallet, walletTx, settlements, failures, loc>>
  /\ UNCHANGED rngVars

\* SELECT * FROM tickets WHERE draw_id = $1 AND status = 'active'
ActiveTickets == {t \in DOMAIN tickets : tickets[t].status = "active"}

RECURSIVE SetToSeq(_)
\* The selected rows, in id order.
SetToSeq(S) ==
  IF S = {} THEN <<>>
  ELSE LET m == CHOOSE x \in S : \A y \in S : x <= y
       IN <<m>> \o SetToSeq(S \ {m})

SelectTickets(p) ==
  /\ pc[p] = "selTickets"
  /\ LET rows == SetToSeq(ActiveTickets)
     IN IF rows = <<>>
          THEN Finish(p, "ok", loc[p])
          ELSE /\ pc' = [pc EXCEPT ![p] = "insSettlement"]
               /\ loc' = [loc EXCEPT ![p].list = rows, ![p].idx = 1]
  /\ UNCHANGED <<drawStatus, tickets, wallet, walletTx, settlements, failures>>
  /\ UNCHANGED rngVars

\* ------------------------------------------------ DrawService.settleTicket

\* INSERT INTO ticket_settlements (...)
InsertSettlement(p) ==
  /\ pc[p] = "insSettlement"
  /\ LET t == CurTicket(p)
     IN settlements' = Insert(settlements,
                              [ticket |-> t, matches |-> Matches(t), payout |-> Payout(t)])
  /\ pc' = [pc EXCEPT ![p] = "updTicket"]
  /\ UNCHANGED <<drawStatus, tickets, wallet, walletTx, failures, loc>>
  /\ UNCHANGED rngVars

\* UPDATE tickets SET status = 'settled' WHERE id = $1, then
\* if (payoutResult.payout > 0) creditWinnings(...), else the ticket is done.
UpdateTicket(p) ==
  /\ pc[p] = "updTicket"
  /\ LET t == CurTicket(p)
     IN /\ tickets' = [tickets EXCEPT ![t].status = "settled"]
        /\ IF Payout(t) > 0
             THEN /\ pc' = [pc EXCEPT ![p] = "cwGetWallet"]
                  /\ UNCHANGED loc
             ELSE NextTicket(p, "ok")
  /\ UNCHANGED <<drawStatus, wallet, walletTx, settlements, failures>>
  /\ UNCHANGED rngVars

\* ---------------------------------------------- DrawService.creditWinnings

\* ticketService.getUserWallet(userId): SELECT * FROM user_wallets
CreditGetWallet(p) ==
  /\ pc[p] = "cwGetWallet"
  /\ pc' = [pc EXCEPT ![p] = "cwUpdWallet"]
  /\ loc' = [loc EXCEPT ![p].wbal = wallet]
  /\ UNCHANGED <<drawStatus, tickets, wallet, walletTx, settlements, failures>>
  /\ UNCHANGED rngVars

\* newBalance = wallet.balance + amount; UPDATE user_wallets SET balance = $1
CreditUpdateWallet(p) ==
  /\ pc[p] = "cwUpdWallet"
  /\ wallet' = loc[p].wbal + Payout(CurTicket(p))
  /\ pc' = [pc EXCEPT ![p] = "cwInsTx"]
  /\ UNCHANGED <<drawStatus, tickets, walletTx, settlements, failures, loc>>
  /\ UNCHANGED rngVars

\* INSERT INTO wallet_transactions (..., 'payout', amount, ..., ticketId)
CreditInsertTx(p) ==
  /\ pc[p] = "cwInsTx"
  /\ LET t == CurTicket(p)
     IN walletTx' = Insert(walletTx, [type |-> "payout", amount |-> Payout(t), ref |-> t])
  /\ NextTicket(p, "ok")
  /\ UNCHANGED <<drawStatus, tickets, wallet, settlements, failures>>
  /\ UNCHANGED rngVars

\* --------------------------------------------- TicketService.purchaseTicket

\* validateTicketData, then getUserWallet (SELECT * FROM user_wallets) and
\* the balance check.
PurchaseGetWalletOf(p, choices) ==
  /\ pc[p] = "idle" /\ p \in Buyers
  /\ \E data \in choices :
       LET l == [loc[p] EXCEPT !.data = data, !.drawId = DrawId]
       IN IF ~validateTicketData(data.spots, data.wager, data.spotSize)
            THEN Finish(p, "Invalid ticket data", l)
          ELSE IF wallet < data.wager
            THEN Finish(p, "Insufficient balance", l)
          ELSE /\ pc' = [pc EXCEPT ![p] = "insTicket"]
               /\ loc' = [loc EXCEPT ![p] = l]
  /\ UNCHANGED <<drawStatus, tickets, wallet, walletTx, settlements, failures>>
  /\ UNCHANGED rngVars

PurchaseGetWallet(p) == PurchaseGetWalletOf(p, TicketChoices)

\* INSERT INTO tickets (...) VALUES (..., 'active') RETURNING *
InsertTicket(p) ==
  /\ pc[p] = "insTicket"
  /\ tickets' = Append(tickets,
                       [user |-> User, draw_id |-> loc[p].drawId,
                        spots |-> loc[p].data.spots, spot_size |-> loc[p].data.spotSize,
                        wager |-> loc[p].data.wager, status |-> "active"])
  /\ pc' = [pc EXCEPT ![p] = "reserve"]
  /\ loc' = [loc EXCEPT ![p].tid = Len(tickets) + 1]
  /\ UNCHANGED <<drawStatus, wallet, walletTx, settlements, failures>>
  /\ UNCHANGED rngVars

\* reserveFunds without the throw of 'Insufficient balance'.
ReserveFundsNoCheck(p) ==
  /\ pc[p] = "reserve"
  /\ LET amount == loc[p].data.wager
         newBalance == wallet - amount
     IN /\ wallet' = newBalance
        /\ walletTx' = Insert(walletTx,
                              [type |-> "wager", amount |-> -amount, ref |-> loc[p].tid])
        /\ Finish(p, "ok", loc[p])
  /\ UNCHANGED <<drawStatus, tickets, settlements, failures>>
  /\ UNCHANGED rngVars

\* TicketService.reserveFunds(walletId, amount, referenceId, 'wager'): one
\* transaction on the locked wallet row.
ReserveFunds(p) ==
  /\ pc[p] = "reserve"
  /\ LET amount == loc[p].data.wager
         newBalance == wallet - amount
     IN IF newBalance < 0
          THEN /\ Finish(p, "Insufficient balance", loc[p])
               /\ UNCHANGED <<wallet, walletTx>>
          ELSE /\ wallet' = newBalance
               /\ walletTx' = Insert(walletTx,
                                     [type |-> "wager", amount |-> -amount, ref |-> loc[p].tid])
               /\ Finish(p, "ok", loc[p])
  /\ UNCHANGED <<drawStatus, tickets, settlements, failures>>
  /\ UNCHANGED rngVars

\* ----------------------------------------------- TicketService.cancelTicket

\* Ticket ids a cancellation may be asked for.
TicketIds == 1..Cardinality(Buyers)

\* SELECT * FROM tickets WHERE id = $1 AND user_id = $2, and the status check.
CancelSelectTicket(p) ==
  /\ pc[p] = "idle" /\ p \in Cancellers
  /\ \E t \in TicketIds, userId \in {User, OtherUser} :
       LET l == [loc[p] EXCEPT !.tid = t, !.user = userId]
       IN IF ~(t \in DOMAIN tickets /\ tickets[t].user = userId)
            THEN Finish(p, "Ticket not found", l)
          ELSE IF tickets[t].status # "active"
            THEN Finish(p, "Ticket cannot be cancelled", l)
          ELSE /\ pc' = [pc EXCEPT ![p] = "ctSelDraw"]
               /\ loc' = [loc EXCEPT ![p] = l]
  /\ UNCHANGED <<drawStatus, tickets, wallet, walletTx, settlements, failures>>
  /\ UNCHANGED rngVars

\* The draw's status is selected and not looked at.
CancelSelectDrawNoStatusCheck(p) ==
  /\ pc[p] = "ctSelDraw"
  /\ pc' = [pc EXCEPT ![p] = "ctGetWallet"]
  /\ UNCHANGED loc
  /\ UNCHANGED <<drawStatus, tickets, wallet, walletTx, settlements, failures>>
  /\ UNCHANGED rngVars

\* SELECT status FROM draws WHERE id = $1
CancelSelectDraw(p) ==
  /\ pc[p] = "ctSelDraw"
  /\ IF drawStatus = "completed"
       THEN Finish(p, "Cannot cancel ticket after draw has completed", loc[p])
       ELSE /\ pc' = [pc EXCEPT ![p] = "ctGetWallet"]
            /\ UNCHANGED loc
  /\ UNCHANGED <<drawStatus, tickets, wallet, walletTx, settlements, failures>>
  /\ UNCHANGED rngVars

\* refundTicket: getUserWallet(ticket.user_id), read outside the transaction.
RefundGetWallet(p) ==
  /\ pc[p] = "ctGetWallet"
  /\ pc' = [pc EXCEPT ![p] = "ctCommit"]
  /\ loc' = [loc EXCEPT ![p].wbal = wallet]
  /\ UNCHANGED <<drawStatus, tickets, wallet, walletTx, settlements, failures>>
  /\ UNCHANGED rngVars

\* refundTicket's UPDATE user_wallets and INSERT 'refund', cancelTicket's
\* UPDATE tickets SET status = 'cancelled', and the COMMIT.
CancelCommit(p) ==
  /\ pc[p] = "ctCommit"
  /\ LET t == loc[p].tid
     IN /\ wallet' = loc[p].wbal + tickets[t].wager
        /\ walletTx' = Insert(walletTx,
                              [type |-> "refund", amount |-> tickets[t].wager, ref |-> t])
        /\ tickets' = [tickets EXCEPT ![t].status = "cancelled"]
  /\ Finish(p, "ok", loc[p])
  /\ UNCHANGED <<drawStatus, settlements, failures>>
  /\ UNCHANGED rngVars

\* ---------------------------------------------------------- GET draw routes

\* The draw row as the routes serialise it: `numbers: draw.numbers` and
\* `status: draw.status`, whatever the status is.
DrawBody == [status |-> drawStatus, numbers |-> DrawNumbers]

\* GET /api/v1/draws/:drawId: getDrawById is SELECT * FROM draws WHERE id = $1.
GetDrawById(p) ==
  /\ pc[p] = "idle" /\ p \in Readers
  /\ Finish(p, "ok", [loc[p] EXCEPT !.drawId = DrawId, !.body = DrawBody])
  /\ UNCHANGED <<drawStatus, tickets, wallet, walletTx, settlements, failures>>
  /\ UNCHANGED rngVars

\* GET /api/v1/draws: getRecentDraws is SELECT * FROM draws ORDER BY draw_time
\* DESC LIMIT $1; the one draw row is the list.
GetRecentDraws(p) ==
  /\ pc[p] = "idle" /\ p \in Readers
  /\ Finish(p, "ok", [loc[p] EXCEPT !.body = DrawBody])
  /\ UNCHANGED <<drawStatus, tickets, wallet, walletTx, settlements, failures>>
  /\ UNCHANGED rngVars

\* ------------------------------------------------------------ store errors

\* Statements of settleTicket and creditWinnings: a throw is caught by the
\* loop of completeDraw, which logs it and goes on.
SettleSteps == {"insSettlement", "updTicket", "cwGetWallet", "cwUpdWallet", "cwInsTx"}

\* Statements whose throw ends the call (a transaction rolls back).
ThrowSteps == {"updDraw", "selTickets", "insTicket", "reserve",
               "ctSelDraw", "ctGetWallet", "ctCommit"}

\* The statement p awaits throws (connection lost, constraint, timeout).
StoreFailure(p) ==
  /\ failures < MaxFailures
  /\ pc[p] \in SettleSteps \cup ThrowSteps
  /\ failures' = failures + 1
  /\ IF pc[p] \in SettleSteps
       THEN NextTicket(p, "failed")
       ELSE Finish(p, "Store error", loc[p])
  /\ UNCHANGED <<drawStatus, tickets, wallet, walletTx, settlements>>
  /\ UNCHANGED rngVars

\* ------------------------------------------------------------ specification

\* One statement of a completeDraw call.
CompleterStep(p) ==
  \/ SelectDraw(p)
  \/ UpdateDraw(p)
  \/ SelectTickets(p)
  \/ InsertSettlement(p)
  \/ UpdateTicket(p)
  \/ CreditGetWallet(p)
  \/ CreditUpdateWallet(p)
  \/ CreditInsertTx(p)

\* One statement of a purchaseTicket call.
BuyerStep(p) ==
  \/ PurchaseGetWallet(p)
  \/ InsertTicket(p)
  \/ ReserveFunds(p)

\* One statement of a cancelTicket call.
CancellerStep(p) ==
  \/ CancelSelectTicket(p)
  \/ CancelSelectDraw(p)
  \/ RefundGetWallet(p)
  \/ CancelCommit(p)

\* Purchases and overlapping completeDraw calls on the draw.
Next ==
  \E p \in Completers \cup Buyers :
    CompleterStep(p) \/ BuyerStep(p) \/ StoreFailure(p)

Spec == Init /\ [][Next]_vars

\* Purchase calls with ticket data of every kind validateTicketData tells
\* apart: no spot, the smallest and the largest spot number and the ones next
\* to them, a duplicate, maxSpots spots and one more, a spot size that is the
\* number of spots or not, wagers at the bounds and a cent outside them.
SpotLists ==
  { <<>>, <<1>>, <<MaxSpotNumber>>, <<0>>, <<MaxSpotNumber + 1>>, <<1, 1>>, <<1, 2>>,
    [i \in 1..maxSpots |-> i], [i \in 1..(maxSpots + 1) |-> i] }

TicketData ==
  { [spots |-> spots, spotSize |-> spotSize, wager |-> wager] :
      spots \in SpotLists, spotSize \in {1, 2, maxSpots},
      wager \in {minWager - 1, minWager, maxWager, maxWager + 1} }

\* Balance of a wallet that covers two wagers of maxWager, in cents.
LargeBalance == 5000

InitPurchase ==
  /\ drawStatus = "pending"
  /\ tickets = <<>>
  /\ wallet \in {OpeningBalance, LargeBalance}
  /\ walletTx = EmptyBag
  /\ settlements = EmptyBag
  /\ failures = 0
  /\ pc = [p \in Procs |-> "idle"]
  /\ loc = [p \in Procs |-> InitLoc]
  /\ serverSeed = EnvServerSeed
  /\ rpc = "idle"
  /\ run = NoRun
  /\ ret = NoRet
  /\ drawResult = NoDraw
  /\ seen = NoCall
  /\ windowsRead = {}
  /\ InitServices

PurchaseAnyData(p) == PurchaseGetWalletOf(p, TicketData)

NextPurchase ==
  \E p \in Buyers : PurchaseAnyData(p) \/ InsertTicket(p) \/ ReserveFunds(p)

SpecPurchase == InitPurchase /\ [][NextPurchase]_vars

\* Purchases, cancellations and one completeDraw call.
CancelProcs == {"c1"} \cup Buyers \cup Cancellers

NextCancel ==
  \E p \in CancelProcs :
    CompleterStep(p) \/ BuyerStep(p) \/ CancellerStep(p) \/ StoreFailure(p)

SpecCancel == Init /\ [][NextCancel]_vars

\* One call of a GET draw route.
ReaderStep(p) ==
  \/ GetDrawById(p)
  \/ GetRecentDraws(p)

\* Purchases, reads of the draw and one completeDraw call.
ReadProcs == {"c1"} \cup Buyers \cup Readers

NextRead ==
  \E p \in ReadProcs :
    CompleterStep(p) \/ BuyerStep(p) \/ ReaderStep(p)

SpecRead == Init /\ [][NextRead]_vars

\* ------------------------------------------------------------- RNGService

\* Length in bytes of an HMAC-SHA256 digest (hash.length).
HashLength == 32

\* Largest poolSize a direct sampleWithoutReplacement call is made with, and
\* largest max a direct getRandomIndex call is made with.
MaxPool == 3
MaxMax == 7

\* Hex strings the service draws from crypto.randomBytes: server seeds
\* (generateSecureSeed) and the default client seed of generateDraw.
Seeds == {EnvServerSeed, <<2, 11>>}
RandomSeeds == {<<3, 12>>}
\* Date.now() at a generateDraw call.
Clock == {1701}

\* Digests the HMAC produces, as bytes at offsets 0..31: every byte 0xFF;
\* the first window 0xFFFFFFFF; the windows at 0 and 4 at the two sides of
\* the rejection threshold of max = 6 and 7; six windows 0xFFFFFFFF and then
\* a small one; and one with no byte near 0xFF.
Digests ==
  << [k \in 0..(HashLength - 1) |-> 255],
     [k \in 0..(HashLength - 1) |-> IF k < 4 THEN 255 ELSE (37 * k + 11) % 251],
     [k \in 0..(HashLength - 1) |->
        IF k \in {3, 7} THEN 255 - k ELSE IF k < 8 THEN 255 ELSE (59 * k + 5) % 251],
     [k \in 0..(HashLength - 1) |-> IF k < 24 THEN 255 ELSE (7 * k) % 251],
     [k \in 0..(HashLength - 1) |-> (101 * k + 17) % 251] >>

RECURSIVE SumSeq(_)
SumSeq(s) == IF s = <<>> THEN 0 ELSE Head(s) + SumSeq(Tail(s))

\* Number.prototype.toString(): the decimal digits of a non-negative integer.
RECURSIVE NumberToString(_)
NumberToString(n) == IF n < 10 THEN <<n>> ELSE Append(NumberToString(n \div 10), n % 10)

\* crypto.createHmac('sha256', key).update(msg).digest(): a fixed table
\* from (key, message) to the digests above.
HmacSha256(key, msg) == Digests[((SumSeq(key) + 3 * SumSeq(msg)) % Len(Digests)) + 1]

\* crypto.createHash('sha256').update(s).digest('hex'), free of collisions.
Sha256(s) == <<"sha256", s>>

\* A 32-bit unsigned value is kept as its two 16-bit halves [hi, lo], the
\* value being hi * 2^16 + lo: 2^32 itself is outside the integers of the
\* model checker.
Half == 256 * 256

\* hash.readUInt32BE(offset): four bytes, big-endian.
readUInt32BE(hash, offset) ==
  [hi |-> hash[offset] * 256 + hash[offset + 1],
   lo |-> hash[offset + 2] * 256 + hash[offset + 3]]

\* 0x100000000 % max, so that Math.floor(0x100000000 / max) * max is
\* 2^32 minus it.
Pow32Mod(max) == ((Half % max) * (Half % max)) % max

\* randomValue >= Math.floor(0x100000000 / max) * max, that is
\* 2^32 - 1 - randomValue < 0x100000000 % max.
Rejected(v, max) == v.hi = Half - 1 /\ (Half - 1) - v.lo < Pow32Mod(max)

\* randomValue % max
Mod32(v, max) == ((v.hi % max) * (Half % max) + v.lo) % max

\* [numbers[i], numbers[j]] = [numbers[j], numbers[i]], indices from 0.
SwapCopy(numbers, i, j) == [numbers EXCEPT ![i + 1] = numbers[j + 1]]
Swap(numbers, i, j) ==
  [numbers EXCEPT ![i + 1] = numbers[j + 1], ![j + 1] = numbers[i + 1]]

\* Array.prototype.slice(0, n)
Slice(s, n) == SubSeq(s, 1, IF n < Len(s) THEN n ELSE Len(s))

\* Array.prototype.sort((a, b) => a - b)
RECURSIVE SortAscending(_)
SortAscending(s) ==
  IF s = <<>> THEN <<>>
  ELSE LET rest == SortAscending(Tail(s))
           k == Cardinality({m \in DOMAIN rest : rest[m] <= Head(s)})
       IN SubSeq(rest, 1, k) \o <<Head(s)>> \o SubSeq(rest, k + 1, Len(rest))

\* JSON.stringify of an array of numbers: the decimal texts, in order.
JSONStringify(a) == [k \in DOMAIN a |-> NumberToString(a[k])]

\* getServerSeedHash()
getServerSeedHash == Sha256(serverSeed)

\* Arguments the direct sampleWithoutReplacement calls are made with.
SampleSeeds == {<<2>>, <<3>>}
SampleNonces == {1, 2}

\* Arguments generateDraw is called with: <<>> is the absent (null or empty)
\* client seed, 0 the absent (null or zero) nonce.
ClientSeeds == {<<>>, <<4>>}
Nonces == {0, 7}

\* The running call returns `value`.
Return(op, args, value) ==
  /\ rpc' = "idle"
  /\ run' = NoRun
  /\ ret' = [op |-> op, args |-> args, value |-> value]
  /\ windowsRead' = {}

\* The object generateDraw returns (drawId and timestamp left out), with the
\* client seed and nonce its caller passed instead of the ones it used.
DrawResultRaw(numbers, args, actual) ==
  [numbers |-> numbers, serverSeedHash |-> getServerSeedHash,
   clientSeed |-> args[1], nonce |-> args[2],
   poolSize |-> config.poolSize, drawSize |-> config.drawSize]

\* The object generateDraw returns (drawId and timestamp left out).
DrawResultOf(numbers, args, actual) ==
  [numbers |-> numbers, serverSeedHash |-> getServerSeedHash,
   clientSeed |-> actual.clientSeed, nonce |-> actual.nonce,
   poolSize |-> config.poolSize, drawSize |-> config.drawSize]

\* return numbers.slice(0, sampleSize).sort(...), and what the caller of
\* sampleWithoutReplacement does with the list: generateDraw builds its
\* result, verifyDraw compares the JSON texts.
Deliver(r, numbers) ==
  LET list == SortAscending(Slice(numbers, r.sampleSize))
  IN CASE r.op = "sample" ->
            /\ Return("sample", r.args, list)
            /\ seen' = IF seen = NoCall
                         THEN [args |-> r.args, value |-> list, serverSeed |-> serverSeed]
                         ELSE seen
            /\ UNCHANGED drawResult
       [] r.op = "generate" ->
            /\ Return("generate", r.args, DrawResultOf(list, r.args, r.ctx))
            /\ drawResult' = DrawResultOf(list, r.args, r.ctx)
            /\ UNCHANGED seen
       [] r.op = "verify" ->
            /\ Return("verify", r.args,
                      JSONStringify(list) = JSONStringify(r.args[1].numbers))
            /\ UNCHANGED <<drawResult, seen>>

\* sampleWithoutReplacement up to its first getRandomIndex(hash, i + 1): the
\* HMAC, numbers = 1..poolSize, i = numbers.length - 1.
StartSample(op, args, ctx, seed, nonce, pool, size) ==
  LET r == [op |-> op, args |-> args, ctx |-> ctx, sampleSize |-> size,
            hash |-> HmacSha256(seed, NumberToString(nonce)),
            numbers |-> [k \in 1..pool |-> k],
            i |-> pool - 1, max |-> pool, offset |-> 0]
  IN IF r.i > 0
       THEN /\ rpc' = "loop"
            /\ run' = r
            /\ ret' = NoRet
            /\ windowsRead' = {}
            /\ UNCHANGED <<drawResult, seen>>
       ELSE Deliver(r, r.numbers)

\* A direct call whose HMAC key is prefixed with this.serverSeed.
sampleWithServerSeed ==
  /\ rpc = "idle"
  /\ \E seed \in SampleSeeds, nonce \in SampleNonces, pool \in 0..MaxPool :
       \E size \in 0..pool :
         StartSample("sample", <<seed, nonce, pool, size>>, <<>>,
                     serverSeed \o seed, nonce, pool, size)
  /\ UNCHANGED <<serverSeed, dbVars>>

\* A direct call sampleWithoutReplacement(seed, nonce, poolSize, sampleSize).
sampleWithoutReplacement ==
  /\ rpc = "idle"
  /\ \E seed \in SampleSeeds, nonce \in SampleNonces, pool \in 0..MaxPool :
       \E size \in 0..pool :
         StartSample("sample", <<seed, nonce, pool, size>>, <<>>,
                     seed, nonce, pool, size)
  /\ UNCHANGED <<serverSeed, dbVars>>

\* A direct call getRandomIndex(hash, max): let offset = 0.
getRandomIndex ==
  /\ rpc = "idle"
  /\ \E h \in DOMAIN Digests, max \in 1..MaxMax :
       run' = [op |-> "index", args |-> <<Digests[h], max>>, ctx |-> <<>>,
               sampleSize |-> 0, hash |-> Digests[h], numbers |-> <<>>,
               i |-> 0, max |-> max, offset |-> 0]
  /\ rpc' = "loop"
  /\ ret' = NoRet
  /\ windowsRead' = {}
  /\ UNCHANGED <<serverSeed, drawResult, seen, dbVars>>

\* randomValue = hash.readUInt32BE(offset % (hash.length - 4))
Window == readUInt32BE(run.hash, run.offset % (HashLength - 4))

\* One pass of the do-while that ends with the value rejected: offset += 4
\* and the loop goes on. offset is only ever used modulo hash.length - 4,
\* and it is kept reduced.
Redraw ==
  /\ rpc = "loop"
  /\ Rejected(Window, run.max)
  /\ run' = [run EXCEPT !.offset = (run.offset + 4) % (HashLength - 4)]
  /\ windowsRead' = windowsRead \cup {run.offset}
  /\ UNCHANGED <<serverSeed, rpc, ret, drawResult, seen, dbVars>>

\* Accept without the test of the loop.
AcceptAny ==
  /\ rpc = "loop"
  /\ LET j == Mod32(Window, run.max)
     IN IF run.op = "index"
          THEN /\ Return("index", run.args, j)
               /\ UNCHANGED <<drawResult, seen>>
          ELSE LET numbers == Swap(run.numbers, run.i, j)
                   i == run.i - 1
               IN IF i > 0
                    THEN /\ run' = [run EXCEPT !.numbers = numbers, !.i = i,
                                               !.max = i + 1, !.offset = 0]
                         /\ windowsRead' = windowsRead \cup {run.offset}
                         /\ UNCHANGED <<rpc, ret, drawResult, seen>>
                    ELSE Deliver(run, numbers)
  /\ UNCHANGED <<serverSeed, dbVars>>

\* The pass of the do-while that ends it: getRandomIndex returns
\* randomValue % max; a direct call is over, the shuffle swaps numbers[i] and
\* numbers[j] and goes on with i - 1 (a new getRandomIndex call, offset 0) or
\* ends with the slice and the sort.
Accept ==
  /\ rpc = "loop"
  /\ ~Rejected(Window, run.max)
  /\ LET j == Mod32(Window, run.max)
     IN IF run.op = "index"
          THEN /\ Return("index", run.args, j)
               /\ UNCHANGED <<drawResult, seen>>
          ELSE LET numbers == Swap(run.numbers, run.i, j)
                   i == run.i - 1
               IN IF i > 0
                    THEN /\ run' = [run EXCEPT !.numbers = numbers, !.i = i,
                                               !.max = i + 1, !.offset = 0]
                         /\ windowsRead' = windowsRead \cup {run.offset}
                         /\ UNCHANGED <<rpc, ret, drawResult, seen>>
                    ELSE Deliver(run, numbers)
  /\ UNCHANGED <<serverSeed, dbVars>>

\* generateDraw(clientSeed, nonce): actualClientSeed = clientSeed ||
\* generateSecureSeed(...), actualNonce = nonce || Date.now(), and the sample
\* of this.drawSize out of this.poolSize keyed by the two seeds.
generateDraw(clientSeed, nonce) ==
  /\ rpc = "idle"
  /\ \E random \in RandomSeeds, now \in Clock :
       LET actualClientSeed == IF clientSeed = <<>> THEN random ELSE clientSeed
           actualNonce == IF nonce = 0 THEN now ELSE nonce
       IN StartSample("generate", <<clientSeed, nonce>>,
                      [clientSeed |-> actualClientSeed, nonce |-> actualNonce],
                      serverSeed \o actualClientSeed, actualNonce,
                      config.poolSize, config.drawSize)
  /\ UNCHANGED <<serverSeed, dbVars>>

\* A result of generateDraw with one of its numbers changed.
Tampered(d) ==
  {[d EXCEPT !.numbers[k] = v] : k \in DOMAIN d.numbers, v \in {1, poolSize}} \ {d}

\* A result of generateDraw with another commitment in serverSeedHash.
Forged(d) == {[d EXCEPT !.serverSeedHash = Sha256(s)] : s \in Seeds} \ {d}

\* Arguments that are not a whole result: null, a result without its nonce
\* and one without its poolSize. `missing` names what the object lacks.
Malformed(d) ==
  { [missing |-> {"drawResult"}],
    [numbers |-> d.numbers, serverSeedHash |-> d.serverSeedHash,
     clientSeed |-> d.clientSeed, nonce |-> 0, poolSize |-> d.poolSize,
     drawSize |-> d.drawSize, missing |-> {"nonce"}],
    [numbers |-> d.numbers, serverSeedHash |-> d.serverSeedHash,
     clientSeed |-> d.clientSeed, nonce |-> d.nonce, poolSize |-> 0,
     drawSize |-> d.drawSize, missing |-> {"poolSize"}] }

Missing(d) == IF "missing" \in DOMAIN d THEN d.missing ELSE {}

\* The statements of the try block before the shuffle throw: destructuring
\* null is a TypeError, a server seed hash that differs throws 'Server seed
\* hash mismatch', nonce.toString() of undefined is a TypeError.
ThrowsInTry(d) ==
  \/ "drawResult" \in Missing(d)
  \/ d.serverSeedHash # getServerSeedHash
  \/ "nonce" \in Missing(d)

\* Arguments verifyDraw is called with: the result the caller holds, as it
\* is, with one number changed, with another commitment, or malformed.
VerifyInputs ==
  {drawResult} \cup Tampered(drawResult) \cup Forged(drawResult)
    \cup Malformed(drawResult)

\* verifyDraw without the comparison of the server seed hashes.
verifyDrawNoHashCheck ==
  /\ rpc = "idle"
  /\ drawResult # NoDraw
  /\ \E d \in {drawResult} \cup Tampered(drawResult) \cup Forged(drawResult) :
       StartSample("verify", <<d>>, <<>>, serverSeed \o d.clientSeed,
                   d.nonce, d.poolSize, d.drawSize)
  /\ UNCHANGED <<serverSeed, dbVars>>

\* verifyDraw without its try/catch: what the try block throws propagates.
verifyDrawNoCatch ==
  /\ rpc = "idle"
  /\ drawResult # NoDraw
  /\ \E d \in VerifyInputs :
       IF ThrowsInTry(d)
         THEN /\ Return("throw", <<d>>, FALSE)
              /\ UNCHANGED <<drawResult, seen>>
         ELSE StartSample("verify", <<d>>, <<>>, serverSeed \o d.clientSeed,
                          d.nonce, d.poolSize, d.drawSize)
  /\ UNCHANGED <<serverSeed, dbVars>>

\* verifyDraw(drawResult): what the try block throws is caught and false is
\* returned; otherwise the numbers are regenerated (an absent poolSize makes
\* Array.from({ length: undefined }) the empty array).
verifyDraw ==
  /\ rpc = "idle"
  /\ drawResult # NoDraw
  /\ \E d \in VerifyInputs :
       IF ThrowsInTry(d)
         THEN /\ Return("verify", <<d>>, FALSE)
              /\ UNCHANGED <<drawResult, seen>>
         ELSE StartSample("verify", <<d>>, <<>>, serverSeed \o d.clientSeed,
                          d.nonce, d.poolSize, d.drawSize)
  /\ UNCHANGED <<serverSeed, dbVars>>

\* rotateServerSeed(): this.serverSeed = generateSecureSeed().
rotateServerSeed ==
  /\ rpc = "idle"
  /\ \E s \in Seeds \ {serverSeed} : serverSeed' = s
  /\ ret' = [op |-> "rotate", args |-> <<>>, value |-> <<>>]
  /\ UNCHANGED <<rpc, run, drawResult, seen, windowsRead, dbVars>>

\* Direct calls of the sampler and of getRandomIndex, with generateDraw()
\* calls and seed rotations between them.
NextSample ==
  \/ sampleWithoutReplacement
  \/ getRandomIndex
  \/ generateDraw(<<>>, 0)
  \/ rotateServerSeed
  \/ Redraw
  \/ Accept

SpecSample == Init /\ [][NextSample]_vars

\* Direct calls alone, each run to its end: JavaScript runs a synchronous
\* call without suspending it.
NextSampleLive ==
  \/ sampleWithoutReplacement
  \/ getRandomIndex
  \/ Redraw
  \/ Accept

SpecSampleLive ==
  Init /\ [][NextSampleLive]_vars /\ WF_vars(Redraw) /\ WF_vars(Accept)

\* generateDraw calls, verifications of their results and seed rotations.
NextVerify ==
  \/ \E clientSeed \in ClientSeeds, nonce \in Nonces : generateDraw(clientSeed, nonce)
  \/ verifyDraw
  \/ rotateServerSeed
  \/ Redraw
  \/ Accept

SpecVerify == Init /\ [][NextVerify]_vars

\* --------------------------------------------------------- PaytableService

\* JavaScript numbers are IEEE-754 doubles.  A double is written here as
\* [m, e]: m its 53-bit significand and e the exponent of the last bit of
\* m, so its value is m * 2^e; zero has the empty significand.  Integers
\* too large for one machine word, significands among them, are the lists
\* of their base-2^15 digits (limbs), least significant first, without
\* leading zeros.
Zero == [m |-> <<>>, e |-> 0]
Precision == 53
LimbBits == 15
Limb == 32768
\* Extra quotient bits a division computes before it rounds.
GuardBits == 75

MaxOf(S) == CHOOSE i \in S : \A j \in S : j <= i

\* The element of a one-element set.  {F(v) : v \in {x}} is F(x) with x
\* computed before F is entered, which keeps the evaluation of nested calls
\* shallow.
Only(S) == CHOOSE v \in S : TRUE

DigitAt(a, i) == IF i \in DOMAIN a THEN a[i] ELSE 0

\* A list of digits without its leading (most significant) zeros.
Trim(a) == SubSeq(a, 1, MaxOf({0} \cup {i \in DOMAIN a : a[i] # 0}))

Zeros(n) == [i \in 1..n |-> 0]

\* The limbs of a machine word, and the word of at most three limbs.
LimbsOf(n) ==
  Trim(<<n % Limb, (n \div Limb) % Limb, n \div (Limb * Limb)>>)
ToInt(a) == DigitAt(a, 1) + Limb * (DigitAt(a, 2) + Limb * DigitAt(a, 3))

\* Number of bits of a limb, and of a list of limbs.
BitLength(d) == CHOOSE n \in 0..LimbBits : d < 2^n /\ (n = 0 \/ d >= 2^(n - 1))
BitLengthOf(a) ==
  IF a = <<>> THEN 0 ELSE LimbBits * (Len(a) - 1) + BitLength(a[Len(a)])

\* a >= b
Geq(a, b) ==
  LET differ == {i \in DOMAIN a \cup DOMAIN b : DigitAt(a, i) # DigitAt(b, i)}
  IN differ = {} \/ DigitAt(a, MaxOf(differ)) > DigitAt(b, MaxOf(differ))

RECURSIVE AddLimbs(_, _, _)
AddLimbs(a, b, carry) ==
  IF a = <<>> /\ b = <<>> THEN LimbsOf(carry)
  ELSE LET t == DigitAt(a, 1) + DigitAt(b, 1) + carry
       IN <<t % Limb>> \o AddLimbs(IF a = <<>> THEN a ELSE Tail(a),
                                   IF b = <<>> THEN b ELSE Tail(b),
                                   t \div Limb)

\* a - b - borrow for a >= b + borrow.
RECURSIVE SubLimbs(_, _, _)
SubLimbs(a, b, borrow) ==
  IF a = <<>> THEN <<>>
  ELSE LET t == Head(a) - DigitAt(b, 1) - borrow
       IN <<t % Limb>> \o SubLimbs(Tail(a), IF b = <<>> THEN b ELSE Tail(b),
                                   IF t < 0 THEN 1 ELSE 0)

\* a * k + carry for k < 2^15.
RECURSIVE MulSmall(_, _, _)
MulSmall(a, k, carry) ==
  IF a = <<>> THEN LimbsOf(carry)
  ELSE LET t == Head(a) * k + carry
       IN <<t % Limb>> \o MulSmall(Tail(a), k, t \div Limb)

RECURSIVE MulLimbs(_, _)
MulLimbs(a, b) ==
  IF b = <<>> THEN <<>>
  ELSE Only({AddLimbs(row, <<0>> \o rest, 0) :
               row \in {MulSmall(a, Head(b), 0)}, rest \in {MulLimbs(a, Tail(b))}})

\* Quotient and remainder of a by d <= 2^15.
RECURSIVE DivSmall(_, _)
DivSmall(a, d) ==
  IF a = <<>> THEN [q |-> <<>>, r |-> 0]
  ELSE Only({[q |-> <<(Limb * hi.r + Head(a)) \div d>> \o hi.q,
              r |-> (Limb * hi.r + Head(a)) % d] :
               hi \in {DivSmall(Tail(a), d)}})

\* The largest k in step * (0..31) with d * (base + k) <= t.
QuotientDigit(t, d, base, step) ==
  step * MaxOf({k \in 0..31 : Geq(t, MulSmall(d, base + step * k, 0))})

\* Quotient and remainder of a by d # 0, one quotient limb at a time, each
\* limb found five bits at a time.
\* One step of the long division: the quotient so far, its remainder and
\* the next limb of the dividend.
DivStep(hi, limb, d) ==
  Only({Only({Only({Only({
    [q |-> <<digit>> \o hi.q,
     r |-> Trim(SubLimbs(t, MulSmall(d, digit, 0), 0))] :
      digit \in {mid + QuotientDigit(t, d, mid, 1)}}) :
      mid \in {high + QuotientDigit(t, d, high, 32)}}) :
      high \in {QuotientDigit(t, d, 0, 1024)}}) :
      t \in {<<limb>> \o hi.r}})

RECURSIVE DivLimbs(_, _)
DivLimbs(a, d) ==
  IF a = <<>> THEN [q |-> <<>>, r |-> <<>>]
  ELSE Only({DivStep(hi, Head(a), d) : hi \in {DivLimbs(Tail(a), d)}})

\* a * 2^n
ShiftLeft(a, n) ==
  Trim(Zeros(n \div LimbBits) \o MulSmall(a, 2^(n % LimbBits), 0))

\* Quotient of a by 2^n, and whether the remainder is nonzero.
ShiftRight(a, n) ==
  Only({[q |-> Trim(qr.q),
         sticky |-> qr.r # 0 \/ \E i \in 1..(n \div LimbBits) : DigitAt(a, i) # 0] :
          qr \in {DivSmall(SubSeq(a, (n \div LimbBits) + 1, Len(a)),
                           2^(n % LimbBits))}})

\* The significand r of a double and the exponent e of its last bit, after
\* rounding has added one to r in the last place.
Renormalized(r, e) ==
  IF BitLengthOf(r) > Precision
  THEN [m |-> Trim(DivSmall(r, 2).q), e |-> e + 1]
  ELSE [m |-> r, e |-> e]

\* The 54 leading bits `cut` of a number rounded to 53: to nearest, ties to
\* the even significand; e is the exponent of the last bit kept.
RoundKept(kept, half, low, e) ==
  Only({Renormalized(r, e) :
          r \in {IF half /\ (low \/ kept[1] % 2 = 1)
                 THEN Trim(AddLimbs(kept, <<>>, 1)) ELSE kept}})
RoundCut(cut, sticky, e) ==
  Only({RoundKept(kept, cut.q[1] % 2 = 1, sticky \/ cut.sticky, e) :
          kept \in {Trim(DivSmall(cut.q, 2).q)}})

\* The double nearest to a * 2^e (plus a nonzero amount below the last bit
\* of a when `sticky`), for a of n bits without leading zeros.
Round53Trimmed(a, n, sticky, e) ==
  IF n = 0 THEN Zero
  ELSE IF n <= Precision
  THEN [m |-> ShiftLeft(a, Precision - n), e |-> e - (Precision - n)]
  ELSE Only({RoundCut(cut, sticky, e + n - Precision) :
               cut \in {ShiftRight(a, n - Precision - 1)}})

Round53(a, sticky, e) ==
  Only({Round53Trimmed(t, BitLengthOf(t), s, e) : t \in {Trim(a)}, s \in {sticky}})

\* The nearest integer to a * 2^e, halves rounded up.
RoundHalfUp(a, e) ==
  IF e >= 0 THEN ShiftLeft(a, e)
  ELSE Only({Trim(DivSmall(AddLimbs(cut.q, <<>>, 1), 2).q) :
               cut \in {ShiftRight(a, -e - 1)}})

\* The number n as a double.
FromInt(n) == Only({Round53(a, FALSE, 0) : a \in {LimbsOf(n)}})

\* parseFloat of the decimal text of num / den, and the number a decimal
\* literal of the source denotes.
parseFloat(num, den) ==
  Only({Only({Round53(qr.q, qr.r # 0, -GuardBits) : qr \in {DivSmall(a, den)}}) :
          a \in {ShiftLeft(LimbsOf(num), GuardBits)}})

\* x * k and x / k for a double x and an integer k < 2^15.
TimesInt(x, k) ==
  Only({Only({Round53(a, FALSE, u.e) : a \in {MulSmall(u.m, k, 0)}}) : u \in {x}})
OverInt(x, k) ==
  Only({Only({Only({Round53(qr.q, qr.r # 0, u.e - GuardBits) :
                      qr \in {DivSmall(a, k)}}) :
                a \in {ShiftLeft(u.m, GuardBits)}}) :
          u \in {x}})

\* x * y and x / y for doubles, y # 0.
Times(x, y) ==
  Only({Only({Round53(a, FALSE, u.e + v.e) : a \in {MulLimbs(u.m, v.m)}}) :
          u \in {x}, v \in {y}})
Over(x, y) ==
  Only({Only({Only({Round53(qr.q, qr.r # <<>>, u.e - GuardBits - v.e) :
                      qr \in {DivLimbs(a, v.m)}}) :
                a \in {ShiftLeft(u.m, GuardBits)}}) :
          u \in {x}, v \in {y}})

\* Math.round(x), as an integer.
MathRound(x) == Only({RoundHalfUp(u.m, u.e) : u \in {x}})

\* The smaller of two integers.
Least(i, j) == IF i <= j THEN i ELSE j

\* x + y, and x - y for x >= y, for doubles >= 0.
Plus(x, y) ==
  Only({Only({Round53(AddLimbs(a, b, 0), FALSE, Least(u.e, v.e)) :
                a \in {ShiftLeft(u.m, u.e - Least(u.e, v.e))},
                b \in {ShiftLeft(v.m, v.e - Least(u.e, v.e))}}) :
          u \in {x}, v \in {y}})
Minus(x, y) ==
  Only({Only({Round53(SubLimbs(a, b, 0), FALSE, Least(u.e, v.e)) :
                a \in {ShiftLeft(u.m, u.e - Least(u.e, v.e))},
                b \in {ShiftLeft(v.m, v.e - Least(u.e, v.e))}}) :
          u \in {x}, v \in {y}})

\* x < y for doubles >= 0.
LessThan(x, y) ==
  Only({~Geq(ShiftLeft(u.m, u.e - Least(u.e, v.e)),
             ShiftLeft(v.m, v.e - Least(u.e, v.e))) : u \in {x}, v \in {y}})

\* Math.floor(x * 100) of the exact product, for a double x >= 0.
FloorCents(x) ==
  Only({ToInt(IF x.e >= 0 THEN ShiftLeft(a, x.e) ELSE ShiftRight(a, -x.e).q) :
          a \in {MulSmall(x.m, 100, 0)}})

\* The value a DECIMAL(n,2) column takes from the number x >= 0, in cents:
\* the driver sends the text of x (the shortest decimal that reads back as
\* x) and the store rounds the text to two places, halves away from zero.
\* The text is a decimal that ends in 5 thousandths exactly when that
\* decimal reads back as x.
Decimal2(x) ==
  Only({IF parseFloat(10 * c + 5, 1000) = x THEN c + 1
        ELSE ToInt(RoundHalfUp(MulSmall(x.m, 100, 0), x.e)) :
          c \in {FloorCents(x)}})

\* Arguments the paytable calls are made with.  Wagers are decimal texts
\* with three places, given in thousandths of a dollar.
SpotSizes == 0..11
MatchCounts == 0..11
WagerScale == 1000
Wagers == {250, 251, 1000, 2000, 20000}
\* combination(n, k) calls: small ones, the first one that is inexact, and
\* the denominator of every Keno probability.
CombinationArgs == {<<5, 2>>, <<5, 0>>, <<5, 5>>, <<5, 6>>, <<5, -1>>,
                    <<10, 3>>, <<56, 23>>, <<80, 20>>}
\* calculateMatchProbability(spotSize, matches, 80, 20) calls, as the
\* probabilities route makes them, and two with matches out of range.
ProbabilityArgs ==
  {<<k, m, poolSize, drawSize>> : k \in {1, 2, 10}, m \in -1..11}

\* The pure functions keep no state: a behaviour makes one call of them,
\* before any request is served.
Fresh == rpc = "idle" /\ ret = NoRet /\ \A p \in Procs : pc[p] = "idle"

\* The call `op(args)` throws Error(message).
Throw(op, args, message) ==
  /\ rpc' = "idle"
  /\ run' = NoRun
  /\ ret' = [op |-> "throw", args |-> <<op>> \o args, value |-> message]
  /\ windowsRead' = {}

\* this.paytables[spotSize] is truthy, with spot sizes of any sign.
HasPaytableAbove0(spotSize) == spotSize >= 1

\* this.paytables[spotSize] is truthy.
HasPaytable(spotSize) == spotSize \in DOMAIN Paytables

\* PaytableService.getPaytable(spotSize)
getPaytable ==
  \E spotSize \in SpotSizes :
    /\ Fresh
    /\ IF ~HasPaytable(spotSize)
       THEN Throw("getPaytable", <<spotSize>>, "Invalid spot size")
       ELSE Return("getPaytable", <<spotSize>>,
                   IF spotSize \in DOMAIN Paytables
                   THEN [spotSize |-> spotSize, wager |-> PaytableWager,
                         payouts |-> Paytables[spotSize]]
                   ELSE [undefined |-> TRUE])
    /\ UNCHANGED <<dbVars, serverSeed, drawResult, seen>>

\* paytable.payouts[matches] || 0 with the entry of the full match missing.
BasePayoutNoTop(spotSize, matches) ==
  LET payouts == Paytables[spotSize]
  IN IF matches \in DOMAIN payouts /\ matches # spotSize
     THEN payouts[matches] ELSE 0

\* paytable.payouts[matches] || 0, in cents.
BasePayout(spotSize, matches) ==
  LET payouts == Paytables[spotSize]
  IN IF matches \in DOMAIN payouts THEN payouts[matches] ELSE 0

\* Math.round(((basePayout / paytable.wager) * wager) * 100), computed in
\* doubles as the code does: the payout in cents.
PayoutCents(basePayout, wager) ==
  ToInt(MathRound(TimesInt(Times(Over(parseFloat(basePayout, 100),
                                      parseFloat(PaytableWager, 100)),
                                 parseFloat(wager, WagerScale)), 100)))

\* What calculatePayout returns for the paytable of a spot size: payouts
\* in cents, the wager in thousandths of a dollar.
PayoutResult(spotSize, matches, wager) ==
  Only({[matches |-> matches, basePayout |-> basePayout, wager |-> wager,
         payout |-> PayoutCents(basePayout, wager), spotSize |-> spotSize] :
          basePayout \in {BasePayout(spotSize, matches)}})

\* PaytableService.calculatePayout(spotSize, matches, wager)
calculatePayoutCall ==
  \E spotSize \in SpotSizes, matches \in MatchCounts, wager \in Wagers :
    /\ Fresh
    /\ IF ~HasPaytable(spotSize)
       THEN Throw("calculatePayout", <<spotSize, matches, wager>>,
                  "Invalid spot size")
       ELSE IF spotSize \notin DOMAIN Paytables
       THEN Throw("calculatePayout", <<spotSize, matches, wager>>, "TypeError")
       ELSE Return("calculatePayout", <<spotSize, matches, wager>>,
                   PayoutResult(spotSize, matches, wager))
    /\ UNCHANGED <<dbVars, serverSeed, drawResult, seen>>

\* The loop of combination, result = result * (n - i) / (i + 1), for i
\* from `from` up to but not including `to`; the range is halved until it
\* is one iteration.
RECURSIVE CombinationLoop(_, _, _, _)
CombinationLoop(n, from, to, result) ==
  IF to <= from THEN result
  ELSE IF to = from + 1 THEN OverInt(TimesInt(result, n - from), from + 1)
  ELSE Only({CombinationLoop(n, (from + to) \div 2, to, half) :
               half \in {CombinationLoop(n, from, (from + to) \div 2, result)}})

\* PaytableService.combination(n, k), a double.
combination(n, k) ==
  IF k > n \/ k < 0 THEN Zero
  ELSE IF k = 0 \/ k = n THEN FromInt(1)
  ELSE Round53(MathRound(CombinationLoop(n, 0, k, FromInt(1))), FALSE, 0)

\* PaytableService.calculateMatchProbability(spotSize, matches, poolSize,
\* drawSize), a double.
calculateMatchProbability(spotSize, matches, pool, draw) ==
  IF matches > spotSize \/ matches > draw THEN Zero
  ELSE IF matches < 0 THEN Zero
  ELSE Over(Times(combination(spotSize, matches),
                  combination(pool - spotSize, draw - matches)),
            combination(pool, draw))

combinationCall ==
  \E args \in CombinationArgs :
    /\ Fresh
    /\ Return("combination", args, combination(args[1], args[2]))
    /\ UNCHANGED <<dbVars, serverSeed, drawResult, seen>>

calculateMatchProbabilityCall ==
  \E args \in ProbabilityArgs :
    /\ Fresh
    /\ Return("calculateMatchProbability", args,
              calculateMatchProbability(args[1], args[2], args[3], args[4]))
    /\ UNCHANGED <<dbVars, serverSeed, drawResult, seen>>

\* Lists calculateMatches is called with: spots and numbers drawn from 1..3,
\* duplicates included.
MaxList == 2
Lists == UNION {[1..n -> 1..3] : n \in 0..MaxList}

calculateMatchesCall ==
  \E ticketSpots \in Lists, drawNumbers \in Lists :
    /\ Fresh
    /\ Return("calculateMatches", <<ticketSpots, drawNumbers>>,
              calculateMatches(ticketSpots, drawNumbers))
    /\ UNCHANGED <<dbVars, serverSeed, drawResult, seen>>

\* One call of a pure function of the paytable or draw service.
NextPure ==
  \/ getPaytable
  \/ calculatePayoutCall
  \/ combinationCall
  \/ calculateMatchProbabilityCall
  \/ calculateMatchesCall

SpecPure == Init /\ [][NextPure]_vars

\* POST /api/v1/paytables/calculate with a body of three numbers (0 is also
\* what `!x` makes of a field that is missing): the response.
postCalculate ==
  \E spotSize \in SpotSizes, matches \in MatchCounts, wager \in {0} \cup Wagers :
    /\ Fresh
    /\ Return("postCalculate", <<spotSize, matches, wager>>,
              IF spotSize = 0 \/ matches = 0 \/ wager = 0
                THEN [status |-> 400,
                      message |-> "spotSize, matches, and wager are required"]
              ELSE IF spotSize < 1 \/ spotSize > 10
                THEN [status |-> 400, message |-> "Spot size must be between 1 and 10"]
              ELSE IF matches < 0 \/ matches > spotSize
                THEN [status |-> 400,
                      message |-> "Matches must be between 0 and spot size"]
              ELSE IF wager <= 0
                THEN [status |-> 400, message |-> "Wager must be a positive number"]
              ELSE [status |-> 200, data |-> PayoutResult(spotSize, matches, wager)])
    /\ UNCHANGED <<dbVars, serverSeed, drawResult, seen>>

NextCalculate == postCalculate

SpecCalculate == Init /\ [][NextCalculate]_vars

\* ------------------------------- DrawService.createDraw and verifyDraw

\* KENO_POOL_SIZE / KENO_DRAW_SIZE settings of the RNG service: unset, and
\* a smaller pool.
Configs == {DefaultConfig, [poolSize |-> 40, drawSize |-> 20]}

InitDraws ==
  /\ drawStatus = "pending"
  /\ tickets = <<>>
  /\ wallet = OpeningBalance
  /\ walletTx = EmptyBag
  /\ settlements = EmptyBag
  /\ failures = 0
  /\ pc = [p \in Procs |-> "idle"]
  /\ loc = [p \in Procs |-> InitLoc]
  /\ serverSeed = EnvServerSeed
  /\ rpc = "idle"
  /\ run = NoRun
  /\ ret = NoRet
  /\ drawResult = NoDraw
  /\ seen = NoCall
  /\ windowsRead = {}
  /\ draws = <<>>
  /\ walletRows = <<>>
  /\ config \in Configs
  /\ otpStorage = <<>>
  /\ dateNow = 0
  /\ wrong = <<>>

\* The RNG calls are synchronous: from the start of one until its caller
\* has taken the result, nothing else of the process runs.
NoCallRunning ==
  rpc = "idle" /\ \A q \in Procs : pc[q] \notin {"cdSampling", "dvReturn"}

\* getNextDrawNumber: SELECT COALESCE(MAX(draw_number), 0) + 1 FROM draws.
GetNextDrawNumber(p) ==
  /\ pc[p] = "idle" /\ p \in Creators
  /\ NoCallRunning
  /\ pc' = [pc EXCEPT ![p] = "cdGenerate"]
  /\ loc' = [loc EXCEPT ![p].drawNumber =
                MaxOf({0} \cup {draws[i].draw_number : i \in DOMAIN draws}) + 1]
  /\ UNCHANGED <<drawStatus, tickets, wallet, walletTx, settlements, failures>>
  /\ UNCHANGED rngVars

\* createDraw goes on with rngService.generateDraw(), a synchronous call:
\* the client seed is random, the nonce is Date.now().
CreateDrawGenerate(p) ==
  /\ pc[p] = "cdGenerate"
  /\ NoCallRunning
  /\ \E random \in RandomSeeds, now \in Clock :
       StartSample("generate", <<(<<>>), 0>>,
                   [clientSeed |-> random, nonce |-> now],
                   serverSeed \o random, now, config.poolSize, config.drawSize)
  /\ pc' = [pc EXCEPT ![p] = "cdSampling"]
  /\ UNCHANGED <<serverSeed, svcVars, loc>>
  /\ UNCHANGED <<drawStatus, tickets, wallet, walletTx, settlements, failures>>

\* const drawResult = rngService.generateDraw(): the caller holds the
\* result and issues the INSERT.
CreateDrawResult(p) ==
  /\ pc[p] = "cdSampling"
  /\ rpc = "idle"
  /\ pc' = [pc EXCEPT ![p] = "cdInsert"]
  /\ loc' = [loc EXCEPT ![p].body = drawResult]
  /\ UNCHANGED <<drawStatus, tickets, wallet, walletTx, settlements, failures>>
  /\ UNCHANGED rngVars

\* InsertDraw on a table without UNIQUE on draw_number.
InsertDrawNoUnique(p) ==
  /\ pc[p] = "cdInsert"
  /\ NoCallRunning
  /\ \/ /\ draws' = Append(draws,
                            [draw_number |-> loc[p].drawNumber,
                             numbers |-> loc[p].body.numbers,
                             server_seed_hash |-> loc[p].body.serverSeedHash,
                             client_seed |-> loc[p].body.clientSeed,
                             nonce |-> loc[p].body.nonce, status |-> "pending"])
        /\ Finish(p, "ok", loc[p])
        /\ UNCHANGED failures
     \/ /\ failures < MaxFailures
        /\ failures' = failures + 1
        /\ Finish(p, "Store error", loc[p])
        /\ UNCHANGED draws
  /\ UNCHANGED <<drawStatus, tickets, wallet, walletTx, settlements>>
  /\ UNCHANGED <<rngState, walletRows, config, otpStorage, dateNow, wrong>>

\* INSERT INTO draws (...) VALUES (..., 'pending') RETURNING * with the
\* result generateDraw returned: the statement throws when the draw number
\* is taken (draw_number BIGINT UNIQUE) or when the store fails.
InsertDraw(p) ==
  /\ pc[p] = "cdInsert"
  /\ NoCallRunning
  /\ \/ IF \E i \in DOMAIN draws : draws[i].draw_number = loc[p].drawNumber
          THEN /\ Finish(p, "Store error", loc[p])
               /\ UNCHANGED <<draws, failures>>
          ELSE /\ draws' = Append(draws,
                                  [draw_number |-> loc[p].drawNumber,
                                   numbers |-> loc[p].body.numbers,
                                   server_seed_hash |-> loc[p].body.serverSeedHash,
                                   client_seed |-> loc[p].body.clientSeed,
                                   nonce |-> loc[p].body.nonce, status |-> "pending"])
               /\ Finish(p, "ok", loc[p])
               /\ UNCHANGED failures
     \/ /\ failures < MaxFailures
        /\ failures' = failures + 1
        /\ Finish(p, "Store error", loc[p])
        /\ UNCHANGED draws
  /\ UNCHANGED <<drawStatus, tickets, wallet, walletTx, settlements>>
  /\ UNCHANGED <<rngState, walletRows, config, otpStorage, dateNow, wrong>>

\* DrawService.verifyDraw(drawId): getDrawById, for the id of a row or of
\* none ('Draw not found' is caught: { drawId, isValid: false, error }).
VerifySelectDraw(p) ==
  /\ pc[p] = "idle" /\ p \in Verifiers
  /\ NoCallRunning
  /\ \E i \in DOMAIN draws \cup {0} :
       IF i = 0
         THEN Finish(p, "ok", [loc[p] EXCEPT !.drawNumber = i, !.body = [isValid |-> FALSE]])
         ELSE /\ pc' = [pc EXCEPT ![p] = "dvVerify"]
              /\ loc' = [loc EXCEPT ![p].drawNumber = i, ![p].body = draws[i]]
  /\ UNCHANGED <<drawStatus, tickets, wallet, walletTx, settlements, failures>>
  /\ UNCHANGED rngVars

\* The object DrawService.verifyDraw hands to rngService.verifyDraw.
VerifyArgument(draw) ==
  [serverSeedHash |-> draw.server_seed_hash, clientSeed |-> draw.client_seed,
   nonce |-> draw.nonce, numbers |-> draw.numbers, poolSize |-> 80, drawSize |-> 20]

\* rngService.verifyDraw({ ..., poolSize: 80, drawSize: 20 }), a synchronous
\* call: false on another server seed hash, else the numbers are sampled
\* again and compared.
VerifyStart(p) ==
  /\ pc[p] = "dvVerify"
  /\ NoCallRunning
  /\ LET d == VerifyArgument(loc[p].body)
     IN IF ThrowsInTry(d)
          THEN /\ Return("verify", <<d>>, FALSE)
               /\ UNCHANGED <<drawResult, seen>>
          ELSE StartSample("verify", <<d>>, <<>>, serverSeed \o d.clientSeed,
                           d.nonce, d.poolSize, d.drawSize)
  /\ pc' = [pc EXCEPT ![p] = "dvReturn"]
  /\ UNCHANGED <<serverSeed, svcVars, loc>>
  /\ UNCHANGED <<drawStatus, tickets, wallet, walletTx, settlements, failures>>

\* return { drawId, isValid }
VerifyReturn(p) ==
  /\ pc[p] = "dvReturn"
  /\ rpc = "idle"
  /\ Finish(p, "ok", [loc[p] EXCEPT !.body = [isValid |-> ret.value]])
  /\ UNCHANGED <<drawStatus, tickets, wallet, walletTx, settlements, failures>>
  /\ UNCHANGED rngVars

\* Concurrent createDraw calls and a verification of a draw they persisted.
NextDraws ==
  \/ \E p \in Creators : GetNextDrawNumber(p) \/ CreateDrawGenerate(p) \/ CreateDrawResult(p) \/ InsertDraw(p)
  \/ \E p \in Verifiers : VerifySelectDraw(p) \/ VerifyStart(p) \/ VerifyReturn(p)
  \/ Redraw
  \/ Accept

SpecDraws == InitDraws /\ [][NextDraws]_vars

\* ------------------------------------------- TicketService.getUserWallet

\* Users without a row in user_wallets when the calls start.
NewUsers == {"u3", "u4"}

\* Indices of the user_wallets rows of a user.
RowsOf(userId) == {i \in DOMAIN walletRows : walletRows[i].user_id = userId}

\* purchaseTicket of a new user with valid ticket data, up to the first
\* await of getUserWallet: SELECT * FROM user_wallets WHERE user_id = $1.
\* A row found is returned (rows[0]: any of the user's rows, the SELECT has
\* no ORDER BY) and its balance of 0.00 is below the wager.
WalletSelect(p) ==
  /\ pc[p] = "idle" /\ p \in NewBuyers
  /\ \E userId \in NewUsers :
       LET l == [loc[p] EXCEPT !.user = userId,
                               !.data = [spots |-> <<1>>, spotSize |-> 1, wager |-> 100]]
       IN IF RowsOf(userId) = {}
            THEN /\ pc' = [pc EXCEPT ![p] = "gwInsert"]
                 /\ loc' = [loc EXCEPT ![p] = l]
            ELSE \E i \in RowsOf(userId) :
                   Finish(p, IF walletRows[i].balance < l.data.wager
                             THEN "Insufficient balance" ELSE "ok",
                          [l EXCEPT !.walletId = walletRows[i].id])
  /\ UNCHANGED walletRows
  /\ UNCHANGED <<drawStatus, tickets, wallet, walletTx, settlements, failures>>
  /\ UNCHANGED <<rngState, draws, config, otpStorage, dateNow, wrong>>

\* getUserWallet's INSERT INTO user_wallets (id, user_id, balance) with a
\* fresh uuid and 0.00; it returns the new wallet, whose balance is below
\* the wager: purchaseTicket throws 'Insufficient balance'.
WalletInsert(p) ==
  /\ pc[p] = "gwInsert"
  /\ walletRows' = Append(walletRows,
                          [id |-> p, user_id |-> loc[p].user, balance |-> 0])
  /\ Finish(p, "Insufficient balance", [loc[p] EXCEPT !.walletId = p])
  /\ UNCHANGED <<drawStatus, tickets, wallet, walletTx, settlements, failures>>
  /\ UNCHANGED <<rngState, draws, config, otpStorage, dateNow, wrong>>

NextWallet == \E p \in NewBuyers : WalletSelect(p) \/ WalletInsert(p)

SpecWallet == Init /\ [][NextWallet]_vars

\* ------------------------------------------------- OTP routes (server.js)

\* Mobile numbers of the requests, and the codes Math.floor(100000 +
\* Math.random() * 900000).toString() yields and the requests carry.
Mobiles == {"m1", "m2"}
Codes == {"100000", "999999"}

\* Milliseconds an OTP lasts, and wrong codes a stored OTP allows.
OtpLifetime == 300000
MaxAttempts == 3

\* Date.now() between two requests advances by ClockStep, up to MaxClock.
ClockStep == 100001
MaxClock == 400004

\* Map.prototype.set and Map.prototype.delete
Set(map, key, value) ==
  [k \in DOMAIN map \cup {key} |-> IF k = key THEN value ELSE map[k]]
Delete(map, key) == [k \in DOMAIN map \ {key} |-> map[k]]

\* POST /api/v1/otp/send
otpSend ==
  /\ \E mobile \in Mobiles \cup {""}, otp \in Codes :
       IF mobile = ""
         THEN /\ ret' = [op |-> "otpSend", args |-> <<mobile>>,
                         value |-> [status |-> 400,
                                    message |-> "Mobile number is required"]]
              /\ UNCHANGED <<otpStorage, wrong>>
         ELSE /\ otpStorage' = Set(otpStorage, mobile,
                                   [otp |-> otp, expiry |-> dateNow + OtpLifetime,
                                    attempts |-> 0])
              /\ wrong' = Set(wrong, mobile, [otp |-> otp, count |-> 0])
              /\ ret' = [op |-> "otpSend", args |-> <<mobile>>,
                         value |-> [status |-> 200,
                                    message |-> "OTP sent successfully to WhatsApp",
                                    expiry |-> dateNow + OtpLifetime]]
  /\ UNCHANGED <<dbState, serverSeed, rpc, run, drawResult, seen, windowsRead>>
  /\ UNCHANGED <<draws, walletRows, config, dateNow>>

\* otpVerify without the check of the attempt limit.
otpVerifyNoLimit ==
  /\ \E mobile \in Mobiles \cup {""}, otp \in Codes \cup {""} :
       LET storedData == otpStorage[mobile]
           Respond(status, message) ==
             ret' = [op |-> "otpVerify", args |-> <<mobile, otp>>,
                     value |-> [status |-> status, message |-> message]]
       IN IF mobile = "" \/ otp = ""
            THEN /\ Respond(400, "Mobile number and OTP are required")
                 /\ UNCHANGED <<otpStorage, wrong>>
          ELSE IF mobile \notin DOMAIN otpStorage
            THEN /\ Respond(400, "OTP not found or expired")
                 /\ UNCHANGED <<otpStorage, wrong>>
          ELSE IF dateNow > storedData.expiry
            THEN /\ Respond(400, "OTP has expired")
                 /\ otpStorage' = Delete(otpStorage, mobile)
                 /\ UNCHANGED wrong
          ELSE IF storedData.otp = otp
            THEN /\ Respond(200, "OTP verified successfully")
                 /\ otpStorage' = Delete(otpStorage, mobile)
                 /\ UNCHANGED wrong
          ELSE /\ otpStorage' = Set(otpStorage, mobile,
                                    [storedData EXCEPT !.attempts = @ + 1])
               /\ wrong' = Set(wrong, mobile, [wrong[mobile] EXCEPT !.count = @ + 1])
               /\ ret' = [op |-> "otpVerify", args |-> <<mobile, otp>>,
                          value |-> [status |-> 400, message |-> "Invalid OTP",
                                     attemptsLeft |-> MaxAttempts - (storedData.attempts + 1)]]
  /\ UNCHANGED <<dbState, serverSeed, rpc, run, drawResult, seen, windowsRead>>
  /\ UNCHANGED <<draws, walletRows, config, dateNow>>

\* POST /api/v1/otp/verify
otpVerify ==
  /\ \E mobile \in Mobiles \cup {""}, otp \in Codes \cup {""} :
       LET storedData == otpStorage[mobile]
           Respond(status, message) ==
             ret' = [op |-> "otpVerify", args |-> <<mobile, otp>>,
                     value |-> [status |-> status, message |-> message]]
       IN IF mobile = "" \/ otp = ""
            THEN /\ Respond(400, "Mobile number and OTP are required")
                 /\ UNCHANGED <<otpStorage, wrong>>
          ELSE IF mobile \notin DOMAIN otpStorage
            THEN /\ Respond(400, "OTP not found or expired")
                 /\ UNCHANGED <<otpStorage, wrong>>
          ELSE IF dateNow > storedData.expiry
            THEN /\ Respond(400, "OTP has expired")
                 /\ otpStorage' = Delete(otpStorage, mobile)
                 /\ UNCHANGED wrong
          ELSE IF storedData.attempts >= MaxAttempts
            THEN /\ Respond(400, "Too many failed attempts. Please request a new OTP")
                 /\ otpStorage' = Delete(otpStorage, mobile)
                 /\ UNCHANGED wrong
          ELSE IF storedData.otp = otp
            THEN /\ Respond(200, "OTP verified successfully")
                 /\ otpStorage' = Delete(otpStorage, mobile)
                 /\ UNCHANGED wrong
          ELSE /\ otpStorage' = Set(otpStorage, mobile,
                                    [storedData EXCEPT !.attempts = @ + 1])
               /\ wrong' = Set(wrong, mobile, [wrong[mobile] EXCEPT !.count = @ + 1])
               /\ ret' = [op |-> "otpVerify", args |-> <<mobile, otp>>,
                          value |-> [status |-> 400, message |-> "Invalid OTP",
                                     attemptsLeft |-> MaxAttempts - (storedData.attempts + 1)]]
  /\ UNCHANGED <<dbState, serverSeed, rpc, run, drawResult, seen, windowsRead>>
  /\ UNCHANGED <<draws, walletRows, config, dateNow>>

\* Time passes between two requests.
Tick ==
  /\ dateNow + ClockStep <= MaxClock
  /\ dateNow' = dateNow + ClockStep
  /\ UNCHANGED <<dbState, rngState, draws, walletRows, config, otpStorage, wrong>>

NextOtp == otpSend \/ otpVerify \/ Tick

SpecOtp == Init /\ [][NextOtp]_vars

\* calculateMatches called directly, or by the settlement of one
\* completeDraw call on the tickets purchased.
NextMatches ==
  \/ calculateMatchesCall
  \/ ret = NoRet /\ NextRead

SpecMatches == Init /\ [][NextMatches]_vars

\* ----------------------------------- purchase and cancellation, in sequence

\* Calls that run one after the other, with wagers of any decimal text the
\* route lets through: the store keeps cents (DECIMAL(15,2), DECIMAL(10,2)),
\* the service computes in doubles.

\* req.body.wager of the purchases, in thousandths of a dollar.
RequestWagers == {240, 250, 255, 1000, 20000, 20010}

\* The number a DECIMAL column of the store reads back as (parseFloat of
\* its text, or the coercion of the text by < and -).
Column(cents) == parseFloat(cents, 100)

\* A whole purchaseTicket(userId, { spots: [1], wager, spotSize: 1, drawId })
\* call: validateTicketData, getUserWallet and the balance check, the
\* INSERT of the ticket, reserveFunds.
purchaseTicket(p) ==
  /\ pc[p] = "idle" /\ p \in Buyers
  /\ \E w \in RequestWagers :
       LET wager == parseFloat(w, WagerScale)
           l == [loc[p] EXCEPT !.data = [spots |-> <<1>>, spotSize |-> 1, wager |-> w],
                               !.drawId = DrawId]
           tid == Len(tickets) + 1
           newBalance == Minus(Column(wallet), wager)
       IN IF LessThan(wager, Column(minWager)) \/ LessThan(Column(maxWager), wager)
            THEN /\ Finish(p, "Invalid ticket data", l)
                 /\ UNCHANGED <<tickets, wallet, walletTx>>
          ELSE IF LessThan(Column(wallet), wager)
            THEN /\ Finish(p, "Insufficient balance", l)
                 /\ UNCHANGED <<tickets, wallet, walletTx>>
          ELSE /\ tickets' = Append(tickets,
                                    [user |-> User, draw_id |-> DrawId, spots |-> <<1>>,
                                     spot_size |-> 1, wager |-> Decimal2(wager),
                                     status |-> "active"])
               /\ wallet' = Decimal2(newBalance)
               /\ walletTx' = Insert(walletTx,
                                     [type |-> "wager", amount |-> -Decimal2(wager),
                                      ref |-> tid, balance_before |-> wallet,
                                      balance_after |-> Decimal2(newBalance)])
               /\ Finish(p, "ok", [l EXCEPT !.tid = tid])
  /\ UNCHANGED <<drawStatus, settlements, failures>>
  /\ UNCHANGED rngVars

\* A whole cancelTicket(ticketId, userId) call: the checks, refundTicket and
\* the UPDATE of the ticket; it returns { success, refund_amount }.
cancelTicket(p) ==
  /\ pc[p] = "idle" /\ p \in Cancellers
  /\ \E t \in TicketIds :
       LET l == [loc[p] EXCEPT !.tid = t, !.user = User]
       IN IF ~(t \in DOMAIN tickets /\ tickets[t].user = User)
            THEN /\ Finish(p, "Ticket not found", l)
                 /\ UNCHANGED <<tickets, wallet, walletTx>>
          ELSE IF tickets[t].status # "active"
            THEN /\ Finish(p, "Ticket cannot be cancelled", l)
                 /\ UNCHANGED <<tickets, wallet, walletTx>>
          ELSE IF drawStatus = "completed"
            THEN /\ Finish(p, "Cannot cancel ticket after draw has completed", l)
                 /\ UNCHANGED <<tickets, wallet, walletTx>>
          ELSE LET newBalance == Plus(Column(wallet), Column(tickets[t].wager))
               IN /\ wallet' = Decimal2(newBalance)
                  /\ walletTx' = Insert(walletTx,
                                        [type |-> "refund", amount |-> tickets[t].wager,
                                         ref |-> t, balance_before |-> wallet,
                                         balance_after |-> Decimal2(newBalance)])
                  /\ tickets' = [tickets EXCEPT ![t].status = "cancelled"]
                  /\ Finish(p, "ok", [l EXCEPT !.body = [refund_amount |-> tickets[t].wager]])
  /\ UNCHANGED <<drawStatus, settlements, failures>>
  /\ UNCHANGED rngVars

\* Purchases and cancellations of one user, one whole call at a time.
NextRoundTrip ==
  \E p \in Buyers \cup Cancellers : purchaseTicket(p) \/ cancelTicket(p)

SpecRoundTrip == InitPurchase /\ [][NextRoundTrip]_vars

\* ------------------------------------------------------- reading the tables

\* Number of rows of a table that satisfy P.
CountWhere(table, P(_)) ==
  BagCardinality([r \in {x \in BagToSet(table) : P(x)} |-> table[r]])

\* Rows of ticket_settlements with ticket_id = t.
SettlementsOf(t) == LET P(r) == r.ticket = t IN CountWhere(settlements, P)

\* Rows of wallet_transactions of one type with reference_id = t.
TxOf(type, t) == LET P(r) == r.type = type /\ r.ref = t IN CountWhere(walletTx, P)

RECURSIVE SumAmounts(_, _)
\* Sum of the amounts of the rows in S, each counted as often as it occurs.
SumAmounts(table, S) ==
  IF S = {} THEN 0
  ELSE LET r == CHOOSE x \in S : TRUE
       IN table[r] * r.amount + SumAmounts(table, S \ {r})

\* Sum of wallet_transactions.amount.
LedgerSum == SumAmounts(walletTx, BagToSet(walletTx))

\* A completeDraw call that got past the 'pending' check of the draw.
Passed(p) ==
  \/ pc[p] \in {"updDraw", "selTickets"} \cup SettleSteps
  \/ pc[p] = "done" /\ loc[p].result \in {"ok", "Store error"}

\* A settleTicket call for ticket t is running.
Settling(t) ==
  \E p \in Completers : pc[p] \in SettleSteps /\ CurTicket(p) = t

\* No call is between two of its statements.
Quiescent == \A p \in Procs : pc[p] \in {"idle", "done"}

\* Ticket t was handed to settleTicket by some completeDraw call.
Attempted(t) ==
  \E p \in Completers :
    \E i \in DOMAIN loc[p].list :
      loc[p].list[i] = t /\ (i <= Len(loc[p].outcome) \/ i = loc[p].idx)

\* ------------------------------------------------------------------ claims

\* C1: under any interleaving of completeDraw calls on the same draw, every
\* ticket has at most one settlement record and at most one 'payout' wallet
\* transaction referencing it.
C1_NoDoubleCredit ==
  \A t \in DOMAIN tickets : SettlementsOf(t) <= 1 /\ TxOf("payout", t) <= 1

\* C2: settlement of a ticket is all-or-nothing, also when a store statement
\* of settleTicket or creditWinnings throws: once no settleTicket call for
\* the ticket is running, the ticket is 'settled' with a payout > 0 if and
\* only if the payout is recorded as a payout transaction of the wallet.
C2_SettleAllOrNothing ==
  \A t \in DOMAIN tickets :
    ~Settling(t) =>
      ((tickets[t].status = "settled" /\ Payout(t) > 0) <=> TxOf("payout", t) >= 1)

\* C3: of the completeDraw calls on one pending draw at most one gets past
\* the status check to do the pending -> completed transition and the
\* settlement; the others fail with 'Draw is not in pending status'.
C3_SingleTransition == Cardinality({p \in Completers : Passed(p)}) <= 1

\* A completeDraw call on the draw has returned normally.
Returned(p) == pc[p] = "done" /\ loc[p].result = "ok" /\ loc[p].drawId = DrawId

\* The tables of the store.
store == <<drawStatus, tickets, wallet, walletTx, settlements>>

\* Caller q starts a completeDraw call on the draw after another call on it
\* has returned: a retry.
RetryStarts(q) ==
  /\ pc[q] = "idle" /\ pc'[q] # "idle" /\ loc'[q].drawId = DrawId
  /\ \E p \in Completers \ {q} : Returned(p)

\* Call p returned and every other call on the draw was rejected.
OnlyPass(p) ==
  /\ Returned(p)
  /\ \A q \in Completers \ {p} :
       pc[q] = "done" /\ loc[q].result = "Draw is not in pending status"

\* The i-th ticket of p's pass was settled without a throw.
SettledBy(p, i) == i <= Len(loc[p].outcome) /\ loc[p].outcome[i] = "ok"

\* C4: a completeDraw call made after an earlier call on the same draw has
\* returned is rejected with 'Draw is not in pending status' and changes no
\* table; with the later calls rejected, every ticket of the pass has at
\* most one settlement record and one payout transaction, and every ticket
\* the pass settled has exactly one settlement record and, when it won,
\* exactly one payout transaction.
C4_RetryRejected ==
  /\ [][\A q \in Completers :
          RetryStarts(q) =>
            /\ pc'[q] = "done"
            /\ loc'[q].result = "Draw is not in pending status"
            /\ store' = store]_vars
  /\ [](\A p \in Completers :
          OnlyPass(p) =>
            \A i \in DOMAIN loc[p].list :
              LET t == loc[p].list[i]
              IN /\ SettlementsOf(t) <= 1 /\ TxOf("payout", t) <= 1
                 /\ SettledBy(p, i) =>
                      /\ SettlementsOf(t) = 1
                      /\ TxOf("payout", t) = (IF Payout(t) > 0 THEN 1 ELSE 0))

\* C4 witness: a pass settled a winning ticket, returned, and the retry was
\* rejected.
C4_Witness ==
  \E p \in Completers :
    /\ OnlyPass(p)
    /\ \E i \in DOMAIN loc[p].list : SettledBy(p, i) /\ Payout(loc[p].list[i]) > 0

\* C5: settleTicket for a ticket whose stored status is already 'settled'
\* or 'cancelled' inserts no settlement record.
C5_SettleIdempotent ==
  [][\A t \in DOMAIN tickets :
       tickets[t].status # "active" => SettlementsOf(t)' = SettlementsOf(t)]_vars

\* C6: the draw becomes 'completed' only after settlement has been attempted
\* for every ticket that is active for it.
C6_CompletedAfterAttempts ==
  [][(drawStatus = "pending" /\ drawStatus' = "completed") =>
       \A t \in DOMAIN tickets : tickets[t].status = "active" => Attempted(t)]_vars

\* C7: a ticket whose settlement attempt failed is not lost: when the pass
\* that failed on it has returned and the ticket is still 'active', the
\* draw is still 'pending', so that a retry of completeDraw is accepted.
C7_FailedTicketRetryable ==
  \A p \in Completers :
    \A i \in DOMAIN loc[p].list :
      ( /\ pc[p] = "done"
        /\ i <= Len(loc[p].outcome) /\ loc[p].outcome[i] = "failed"
        /\ tickets[loc[p].list[i]].status = "active" )
      => drawStatus = "pending"

\* C8: a throw while settling one ticket does not abort the pass: a call
\* that selected tickets returns normally having attempted every one of
\* them, and every ticket it settled without a throw has its settlement
\* record with the right matches and payout, is no longer 'active' and, when
\* it won, has its payout transaction.
C8_FailureIsolated ==
  \A p \in Completers :
    /\ (pc[p] = "done" /\ loc[p].list # <<>>) =>
         loc[p].result = "ok" /\ Len(loc[p].outcome) = Len(loc[p].list)
    /\ \A i \in DOMAIN loc[p].list :
         SettledBy(p, i) =>
           LET t == loc[p].list[i]
           IN /\ BagIn([ticket |-> t, matches |-> Matches(t), payout |-> Payout(t)],
                       settlements)
              /\ tickets[t].status # "active"
              /\ Payout(t) > 0 => TxOf("payout", t) >= 1

\* C8 witness: a pass returned after a throw on its first ticket and a
\* settlement of its second.
C8_Witness ==
  \E p \in Completers :
    /\ pc[p] = "done" /\ loc[p].result = "ok"
    /\ Len(loc[p].outcome) = 2
    /\ loc[p].outcome[1] = "failed" /\ loc[p].outcome[2] = "ok"
    /\ Payout(loc[p].list[2]) > 0

\* The purchaseTicket call that inserted ticket t is still running.
Purchasing(t) == \E p \in Buyers : pc[p] = "reserve" /\ loc[p].tid = t

\* C9: purchase is all-or-nothing: once the purchaseTicket call has ended, a
\* ticket row exists only with exactly one 'wager' debit of its amount
\* applied to the wallet.
C9_PurchaseAllOrNothing ==
  \A t \in DOMAIN tickets :
    ~Purchasing(t) =>
      /\ TxOf("wager", t) = 1
      /\ BagIn([type |-> "wager", amount |-> -tickets[t].wager, ref |-> t], walletTx)

\* C10: after any interleaving of purchaseTicket, cancelTicket and
\* completeDraw in which no statement threw, the wallet balance is the
\* opening balance plus the sum of the recorded wallet transactions.
C10_MoneyConserved ==
  (Quiescent /\ failures = 0) => wallet = OpeningBalance + LedgerSum

\* C11: once the draw is completed, no step marks one of its tickets
\* 'cancelled' or records a refund for it: a cancellation that races with
\* the draw's completion loses.
C11_NoCancelAfterDraw ==
  [][drawStatus = "completed" =>
       \A t \in DOMAIN tickets :
         /\ tickets'[t].status = "cancelled" => tickets[t].status = "cancelled"
         /\ TxOf("refund", t)' = TxOf("refund", t)]_vars

\* C12: 'settled' and 'cancelled' are absorbing: no step changes the status
\* of a ticket that is settled or cancelled.
C12_TerminalStatusAbsorbing ==
  [][\A t \in DOMAIN tickets :
       tickets[t].status \in {"settled", "cancelled"} =>
         tickets'[t].status = tickets[t].status]_vars

\* C14: purchaseTicket creates no ticket for a draw that is already
\* completed: while the draw is 'completed' no ticket row is inserted and no
\* wager is debited.
C14_NoPurchaseAfterDraw ==
  [][drawStatus = "completed" =>
       /\ Len(tickets') = Len(tickets)
       /\ \A t \in DOMAIN tickets : TxOf("wager", t)' = TxOf("wager", t)]_vars

\* C13: no read of the draw returns its numbers while the draw is still
\* 'pending': a response that reports status 'pending' carries no numbers.
C13_NumbersHiddenWhilePending ==
  \A p \in Readers :
    pc[p] = "done" /\ loc[p].body.status = "pending" => loc[p].body.numbers = <<>>

\* ------------------------------------------------------ claims on the RNG

\* `list` has exactly `size` elements, each an integer of 1..pool, in
\* strictly ascending order (hence all distinct).
AscendingSample(list, pool, size) ==
  /\ Len(list) = size
  /\ \A k \in DOMAIN list : list[k] \in 1..pool
  /\ \A k \in 1..(Len(list) - 1) : list[k] < list[k + 1]

\* C15: whenever sampleWithoutReplacement returns (called directly with
\* 0 <= sampleSize <= poolSize, or by generateDraw), the result has exactly
\* sampleSize elements, all distinct, each in 1..poolSize, in strictly
\* ascending order.
C15_SampleDistinctAscending ==
  /\ ret.op = "sample" => AscendingSample(ret.value, ret.args[3], ret.args[4])
  /\ ret.op = "generate" => AscendingSample(ret.value.numbers, poolSize, drawSize)

\* A direct call has returned the full permutation of the largest pool.
C15_Witness ==
  ret.op = "sample" /\ ret.args[3] = MaxPool /\ ret.args[4] = MaxPool

\* C16: a sampleWithoutReplacement call changes no state of the service, and
\* a call that returns returns the list the first call with the same
\* (seed, nonce, poolSize, sampleSize) returned, whatever ran in between.
C16_SampleDeterministic ==
  [][/\ (run.op = "sample" \/ run'.op = "sample" \/ ret'.op = "sample")
          => serverSeed' = serverSeed
     /\ (ret'.op = "sample" /\ seen.args = ret'.args)
          => ret'.value = seen.value]_vars

\* A call has returned whose arguments are those of the first call, after
\* the server seed was rotated and a draw was generated.
C16_Witness ==
  /\ ret.op = "sample" /\ seen.args = ret.args
  /\ ret.args[3] = MaxPool
  /\ seen.serverSeed # serverSeed
  /\ drawResult # NoDraw

\* C17: every call that is inside the rejection loop of getRandomIndex
\* returns.
C17_SamplerTerminates == (rpc = "loop") ~> (rpc = "idle")

\* C18: within one call the hash is never read at an offset it was already
\* read at.
C18_WindowsNotReused ==
  rpc = "loop" => (run.offset % (HashLength - 4)) \notin windowsRead

\* C19: getRandomIndex(hash, max) returns randomValue % max of the first
\* window, in the order of the offsets 0, 4, 8, ..., that is not rejected,
\* every window before it being rejected, and the index is in 0..max - 1.
C19_FirstAcceptedWindow ==
  ret.op = "index" =>
    LET hash == ret.args[1]
        max == ret.args[2]
    IN /\ ret.value \in 0..(max - 1)
       /\ \E k \in 0..((HashLength - 4) \div 4 - 1) :
            /\ ~Rejected(readUInt32BE(hash, 4 * k), max)
            /\ \A m \in 0..(k - 1) : Rejected(readUInt32BE(hash, 4 * m), max)
            /\ ret.value = Mod32(readUInt32BE(hash, 4 * k), max)

\* getRandomIndex has returned after it rejected the window at offset 0.
C19_Witness ==
  ret.op = "index" /\ Rejected(readUInt32BE(ret.args[1], 0), ret.args[2])

\* C20: verifyDraw returns true on the result generateDraw returned while
\* the server seed is the one of the draw, and false on that result with
\* one number changed.
C20_VerifyRoundTrip ==
  ret.op = "verify" =>
    /\ (ret.args[1] = drawResult /\ drawResult.serverSeedHash = getServerSeedHash)
         => ret.value = TRUE
    /\ ret.args[1] \in Tampered(drawResult) => ret.value = FALSE

\* verifyDraw has returned true on a result of generateDraw() called with
\* no client seed and no nonce.
C20_Witness ==
  /\ ret.op = "verify" /\ ret.args[1] = drawResult /\ ret.value = TRUE
  /\ drawResult.clientSeed \in RandomSeeds /\ drawResult.nonce \in Clock

\* C21: a draw generated under an earlier server seed still verifies after
\* rotateServerSeed: verifyDraw on the unmodified result returns true
\* whatever the current server seed is.
C21_VerifiesAfterRotation ==
  (ret.op = "verify" /\ ret.args[1] = drawResult) => ret.value = TRUE

\* C22: verifyDraw returns false whenever the serverSeedHash of the result
\* is not the SHA-256 hash of the server seed it verifies with, also when
\* the numbers of the result are the ones that seed reproduces.
C22_CommitmentChecked ==
  (ret.op = "verify" /\ ("drawResult" \in Missing(ret.args[1])
                           \/ ret.args[1].serverSeedHash # getServerSeedHash))
    => ret.value = FALSE

\* verifyDraw has returned on a result whose numbers are the genuine ones of
\* the current server seed and whose commitment is another one.
C22_Witness ==
  /\ ret.op = "verify"
  /\ ret.args[1] \in Forged(drawResult)
  /\ drawResult.serverSeedHash = getServerSeedHash

\* C23: verifyDraw never lets an exception out: on every argument, a
\* malformed one included, it returns a boolean, and it returns true only
\* if the argument is a whole result whose serverSeedHash is the hash of the
\* server seed and whose numbers are the regenerated ones.
C23_VerifyFailsClosed ==
  /\ ret.op # "throw"
  /\ ret.op = "verify" =>
       /\ ret.value \in BOOLEAN
       /\ ret.value = TRUE =>
            /\ Missing(ret.args[1]) = {}
            /\ ret.args[1].serverSeedHash = getServerSeedHash
            /\ ret.args[1].numbers = drawResult.numbers

\* verifyDraw has returned on a result without its nonce whose commitment
\* is the hash of the server seed: the recomputation threw.
C23_Witness ==
  /\ ret.op = "verify"
  /\ Missing(ret.args[1]) = {"nonce"}
  /\ ret.args[1].serverSeedHash = getServerSeedHash


\* ------------------------------------------------ claims on the paytable

\* multiplier * wager / base wager, in cents, for the double the wager text
\* denotes, rounded to the nearest cent with halves up: exact arithmetic.
ExactPayout(spotSize, matches, wager) ==
  Only({Only({ToInt(RoundHalfUp(DivSmall(MulSmall(product, 100, 0),
                                         PaytableWager).q, x.e)) :
                product \in {MulLimbs(x.m, LimbsOf(BasePayout(spotSize, matches)))}}) :
          x \in {parseFloat(wager, WagerScale)}})

\* C24: the payout calculatePayout returns is the paytable multiplier times
\* the wager divided by the base wager, rounded to the nearest cent with
\* halves up; a match count without a table entry pays 0; the result echoes
\* matches, wager and spotSize.
C24_PayoutRoundedHalfUp ==
  ret.op = "calculatePayout" =>
    /\ ret.value.payout = ExactPayout(ret.args[1], ret.args[2], ret.args[3])
    /\ ret.args[2] \notin DOMAIN Paytables[ret.args[1]] => ret.value.payout = 0
    /\ ret.value.matches = ret.args[2]
    /\ ret.value.wager = ret.args[3]
    /\ ret.value.spotSize = ret.args[1]


\* C25: payout monotonicity: for every spot size 1..10, every wager and all
\* match counts m1 <= m2 <= spotSize, the payout for m1 matches is at most
\* the payout for m2 matches.
C25_PayoutMonotone ==
  (ret.op = "calculatePayout" /\ ret.args[2] <= ret.args[1]) =>
    \A m2 \in ret.args[2]..ret.args[1] :
      ret.value.payout <= PayoutResult(ret.args[1], m2, ret.args[3]).payout

C25_Witness ==
  /\ ret.op = "calculatePayout"
  /\ ret.args[1] = 5 /\ ret.args[2] = 3
  /\ ret.value.payout > 0
  /\ ret.value.payout < PayoutResult(5, 4, ret.args[3]).payout


\* C26: calculatePayout fails with an error whenever matches > spotSize: it
\* never returns a payout result for a match count above the spot count.
C26_MatchCountRejected ==
  ret.op = "calculatePayout" => ret.args[2] <= ret.args[1]

\* C27: calculatePayout and getPaytable throw for every spot size outside
\* 1..10 and return a result for every spot size inside 1..10.
C27_SpotSizeChecked ==
  /\ ret.op \in {"calculatePayout", "getPaytable"} =>
       /\ ret.args[1] \in 1..10
       /\ "undefined" \notin DOMAIN ret.value
  /\ (ret.op = "throw" /\ ret.args[1] \in {"calculatePayout", "getPaytable"}) =>
       ret.args[2] \notin 1..10

C27_Witness ==
  /\ ret.op = "throw"
  /\ ret.args[1] = "calculatePayout"
  /\ ret.args[2] = 11
  /\ ret.value = "Invalid spot size"


\* The binomial coefficient C(n, k) as an exact integer: the product of
\* (n - i) / (i + 1) for i from `from` up to but not including `to`, every
\* division exact.
RECURSIVE BinomialLoop(_, _, _, _)
BinomialLoop(n, from, to, result) ==
  IF to <= from THEN result
  ELSE IF to = from + 1
  THEN Only({Trim(DivSmall(product, from + 1).q) :
               product \in {MulSmall(result, n - from, 0)}})
  ELSE Only({BinomialLoop(n, (from + to) \div 2, to, half) :
               half \in {BinomialLoop(n, from, (from + to) \div 2, result)}})

Binomial(n, k) ==
  IF k < 0 \/ k > n THEN <<>> ELSE BinomialLoop(n, 0, k, <<1>>)

\* Quotient bits computed before the exact hypergeometric value is rounded
\* to a double: the smallest value is above 2^-30.
ExactGuardBits == 105

\* The double nearest to C(k, m) * C(N - k, n - m) / C(N, n).
Hypergeometric(k, m, N, n) ==
  IF m < 0 \/ m > k \/ m > n THEN Zero
  ELSE Only({Only({Round53(qr.q, qr.r # <<>>, -ExactGuardBits) :
                     qr \in {DivLimbs(a, Binomial(N, n))}}) :
               a \in {ShiftLeft(MulLimbs(Binomial(k, m), Binomial(N - k, n - m)),
                                ExactGuardBits)}})

\* C28: combination(a, b) is the exact binomial coefficient (0 for b < 0 or
\* b > a, 1 for b = 0 or b = a) and calculateMatchProbability(k, m, N, n) is
\* the exact hypergeometric value C(k,m) * C(N-k,n-m) / C(N,n), as the
\* nearest double; it is 0 for m < 0, m > k or m > n.
C28_ExactHypergeometric ==
  /\ ret.op = "combination" =>
       ret.value = Round53(Binomial(ret.args[1], ret.args[2]), FALSE, 0)
  /\ ret.op = "calculateMatchProbability" =>
       ret.value = Hypergeometric(ret.args[1], ret.args[2], ret.args[3], ret.args[4])


\* C29: calculateMatches(spots, numbers) is the number of elements of the
\* intersection of the sets of spots and numbers, duplicates counted once,
\* so between 0 and the shorter length; it is the match count of every
\* settlement row and the one its payout was calculated with.
C29_MatchesIntersection ==
  /\ ret.op = "calculateMatches" =>
       /\ ret.value = Cardinality(SeqToSet(ret.args[1]) \cap SeqToSet(ret.args[2]))
       /\ ret.value >= 0
       /\ ret.value <= Len(ret.args[1]) /\ ret.value <= Len(ret.args[2])
  /\ \A row \in BagToSet(settlements) :
       LET ticket == tickets[row.ticket]
       IN /\ row.matches =
               Cardinality(SeqToSet(ticket.spots) \cap SeqToSet(DrawNumbers))
          /\ row.payout = calculatePayout(ticket.spot_size, row.matches, ticket.wager)

C29_Witness ==
  /\ ret.op = "calculateMatches"
  /\ ret.args = <<(<<1, 1>>), <<1, 2>>>>
  /\ ret.value = 1


\* C30: every row of the tickets table has 1 to 10 pairwise distinct spots,
\* each an integer from 1 to 80, a spot_size equal to the number of spots,
\* and a wager from minWager to maxWager.
C30_TicketInvariant ==
  \A t \in DOMAIN tickets :
    LET spots == tickets[t].spots
    IN /\ Len(spots) \in 1..10
       /\ \A i \in DOMAIN spots : spots[i] \in 1..80
       /\ \A i, j \in DOMAIN spots : spots[i] = spots[j] => i = j
       /\ tickets[t].spot_size = Len(spots)
       /\ tickets[t].wager >= minWager /\ tickets[t].wager <= maxWager

C30_Witness ==
  /\ \E t \in DOMAIN tickets :
       Len(tickets[t].spots) = 10 /\ tickets[t].wager = maxWager
  /\ \E p \in Buyers :
       /\ loc[p].result = "Invalid ticket data"
       /\ loc[p].data.spots = <<1, 1>>


\* Ticket data that break a rule of the ticket: the number of spots, the
\* spot size, the spot numbers, their distinctness or the wager bounds.
InvalidData(data) ==
  \/ Len(data.spots) \notin 1..10
  \/ data.spotSize # Len(data.spots)
  \/ \E i \in DOMAIN data.spots : data.spots[i] \notin 1..80
  \/ \E i, j \in DOMAIN data.spots : i # j /\ data.spots[i] = data.spots[j]
  \/ data.wager < 25 \/ data.wager > 2000

C34_BalanceNonNegative == wallet >= 0

\* The balance is used up and a purchase was turned down by reserveFunds,
\* after its ticket was inserted.
C34_Witness ==
  /\ wallet = 0
  /\ \E p \in Buyers :
       /\ pc[p] = "done"
       /\ loc[p].result = "Insufficient balance"
       /\ loc[p].tid # 0


\* What a cancelTicket call throws when it turns the cancellation down.
CancelErrors ==
  {"Ticket not found", "Ticket cannot be cancelled",
   "Cannot cancel ticket after draw has completed"}

\* C35: a cancelTicket call for a ticket the caller does not own or that is
\* not 'active' throws at its first statement, one whose SELECT of the draw
\* is made when the draw is 'completed' throws there (the error of the
\* check, or the one of the statement), and a call that throws leaves the
\* tickets, the balance and the wallet transactions as they were.
C35_RejectedCancelChangesNothing ==
  [][\A p \in Cancellers :
       LET t == loc'[p].tid
       IN /\ (/\ pc[p] = "idle" /\ pc'[p] # "idle"
               /\ \/ t \notin DOMAIN tickets
                  \/ tickets[t].user # loc'[p].user
                  \/ tickets[t].status # "active") =>
                (pc'[p] = "done" /\ loc'[p].result \in CancelErrors)
          /\ (pc[p] = "ctSelDraw" /\ pc'[p] # "ctSelDraw" /\ drawStatus = "completed") =>
                (pc'[p] = "done" /\ loc'[p].result \in CancelErrors \cup {"Store error"})
          /\ (pc[p] # "done" /\ pc'[p] = "done" /\ loc'[p].result # "ok") =>
                (tickets' = tickets /\ wallet' = wallet /\ walletTx' = walletTx)]_vars

\* A cancellation by its owner of an active ticket was turned down because
\* the draw is completed.
C35_Witness ==
  \E p \in Cancellers :
    /\ pc[p] = "done"
    /\ loc[p].tid \in DOMAIN tickets
    /\ loc[p].user = User
    /\ loc[p].result = "Cannot cancel ticket after draw has completed"
    /\ drawStatus = "completed"


\* The wallet transaction that recorded the wager of ticket t.
WagerTx(t) == CHOOSE tx \in BagToSet(walletTx) : tx.type = "wager" /\ tx.ref = t

\* C36: a cancelTicket call that succeeds on the ticket purchased last, with
\* the balance as that purchase left it (nothing else happened on the wallet
\* since), puts the balance back to its value before the purchase, returns
\* the ticket's wager as the refund amount and leaves the ticket 'cancelled'.
C36_PurchaseCancelRoundTrip ==
  [][\A p \in Cancellers :
       LET t == loc'[p].tid
       IN (/\ pc[p] = "idle" /\ pc'[p] = "done" /\ loc'[p].result = "ok"
           /\ t = Len(tickets)
           /\ wallet = WagerTx(t).balance_after) =>
            /\ wallet' = WagerTx(t).balance_before
            /\ loc'[p].body.refund_amount = tickets[t].wager
            /\ tickets'[t].status = "cancelled"]_vars


\* C38: the ticketsSettled a completeDraw call returns (tickets.length of
\* the rows it selected) is the number of those tickets that have status
\* 'settled' when it returns.
C38_TicketsSettledCount ==
  \A p \in Completers :
    (pc[p] = "done" /\ loc[p].result = "ok") =>
      Len(loc[p].list) =
        Cardinality({i \in DOMAIN loc[p].list :
                       tickets[loc[p].list[i]].status = "settled"})


\* C39: POST /api/v1/paytables/calculate answers 200 with the result of
\* calculatePayout exactly for a spot size in 1..10, matches in 0..spotSize
\* (0 too) and a wager > 0, and 400 otherwise.
C39_CalculateAccepts ==
  ret.op = "postCalculate" =>
    LET spotSize == ret.args[1]
        matches == ret.args[2]
        wager == ret.args[3]
    IN IF spotSize \in 1..10 /\ matches \in 0..spotSize /\ wager > 0
       THEN /\ ret.value.status = 200
            /\ ret.value.data = PayoutResult(spotSize, matches, wager)
       ELSE ret.value.status = 400


\* C40: a stored OTP takes at most 3 wrong codes; a verify call succeeds
\* only with fewer than 3 wrong codes tried since the OTP was sent, so none
\* does after the third failure until a new OTP is sent; a successful or
\* expired verification leaves no stored OTP; attemptsLeft of a failure is 3
\* minus the wrong codes so far.
C40_OtpLockout ==
  /\ \A m \in DOMAIN wrong : wrong[m].count <= 3
  /\ \A m \in DOMAIN otpStorage : otpStorage[m].attempts = wrong[m].count
  /\ ret.op = "otpVerify" =>
       LET m == ret.args[1]
       IN /\ ret.value.status = 200 =>
               /\ wrong[m].count < 3
               /\ ret.args[2] = wrong[m].otp
               /\ m \notin DOMAIN otpStorage
          /\ ret.value.message = "OTP has expired" => m \notin DOMAIN otpStorage
          /\ ret.value.message = "Invalid OTP" =>
               /\ ret.value.attemptsLeft = 3 - wrong[m].count
               /\ ret.args[2] # wrong[m].otp

\* The correct code was turned down after three wrong ones.
C40_Witness ==
  /\ ret.op = "otpVerify"
  /\ ret.args[1] \in DOMAIN wrong
  /\ wrong[ret.args[1]].count = 3
  /\ ret.args[2] = wrong[ret.args[1]].otp
  /\ ret.value.status = 400
  /\ ret.value.message = "Too many failed attempts. Please request a new OTP"


\* C33: no user has two rows in user_wallets, whatever the interleaving of
\* the calls that look the user's wallet up and create it when missing.
C33_OneWalletPerUser ==
  \A userId \in NewUsers : Cardinality(RowsOf(userId)) <= 1


\* C32: the persisted draws carry the numbers 1..n, each one once, in the
\* order of their insertion (each new draw has the previous maximum plus
\* one), whatever the interleaving of the createDraw calls.
C32_DrawNumbersGapFree ==
  \A i \in DOMAIN draws : draws[i].draw_number = i

\* Two createDraw calls read the same next number; one inserted its draw
\* and the other's INSERT was refused.
C32_Witness ==
  /\ Len(draws) = 1
  /\ \A p \in Creators : pc[p] = "done" /\ loc[p].drawNumber = 1
  /\ \E p \in Creators : loc[p].result = "Store error"
  /\ failures = 0

\* C37: DrawService.verifyDraw reports isValid = true for a draw createDraw
\* persisted, the server seed being the one it was generated with, for
\* every configuration of the pool and draw size.
C37_PersistedDrawVerifies ==
  \A p \in Verifiers :
    (/\ pc[p] = "done"
     /\ loc[p].drawNumber \in DOMAIN draws
     /\ draws[loc[p].drawNumber].server_seed_hash = getServerSeedHash) =>
      loc[p].body.isValid = TRUE

=============================================================================
